---------------------------- MODULE Spec2Model ----------------------------
(***************************************************************************)
(* A model of the MEI header -> PROV-O converter (parse_provenance_prov.py) *)
(* Strings are sequences of one-character strings, so that slugs, escapes  *)
(* and identifier collisions are computed and not assumed.  The only       *)
(* multi-character symbols are the URI scheme prefixes ("mei:agent/", ...), *)
(* which contain ':', a character no modelled input contains.              *)
(***************************************************************************)
EXTENDS Integers, Sequences, FiniteSets, TLC

(***************************************************************************)
(* Bounds of the model.                                                    *)
(***************************************************************************)
\* data-carrying elements read in one run (all documents together)
MaxElems == 2
\* documents converted in one run
MaxDocs == 2
\* <source> entries of one <sourceDesc>
MaxSources == 2
\* characters of the argument of a helper function called on its own
MaxLen == 3
\* children of the element given to _elem_to_dict
MaxKids == 2
\* files find_mei_files discovers in one batch run
MaxFiles == 4

(***************************************************************************)
(* Characters.                                                             *)
(***************************************************************************)
LowerLetters == <<"a","b","c","d","e","f","g","h","i","j","k","l","m",
                  "n","o","p","q","r","s","t","u","v","w","x","y","z">>
UpperLetters == <<"A","B","C","D","E","F","G","H","I","J","K","L","M",
                  "N","O","P","Q","R","S","T","U","V","W","X","Y","Z">>
Digits == <<"0","1","2","3","4","5","6","7","8","9">>

Range(s) == {s[i] : i \in DOMAIN s}

\* \s of the regular expressions and of str.strip()
IsSpace(c) == c \in {" ", "\t", "\n", "\r"}

\* two characters outside ASCII, each one symbol: LATIN CAPITAL LETTER I WITH
\* DOT ABOVE, a letter, and COMBINING DOT ABOVE, a mark that is neither a
\* word character nor whitespace
CapitalDottedI == "U+0130"
CombiningDot   == "U+0307"

\* \w of the regular expressions: letters, digits and the underscore
IsWord(c) ==
    c \in Range(LowerLetters) \cup Range(UpperLetters) \cup Range(Digits)
           \cup {"_", CapitalDottedI}

\* str.lower() on one character
LowerChar(c) ==
    IF c \in Range(UpperLetters)
    THEN LowerLetters[CHOOSE i \in DOMAIN UpperLetters : UpperLetters[i] = c]
    ELSE c

\* str.lower(): one character at a time; the capital dotted I becomes an i
\* followed by the combining dot
RECURSIVE Lower(_)
Lower(s) ==
    IF s = <<>> THEN <<>>
    ELSE (IF Head(s) = CapitalDottedI THEN <<"i", CombiningDot>>
          ELSE <<LowerChar(Head(s))>>) \o Lower(Tail(s))

RECURSIVE LStrip(_)
LStrip(s) == IF s # <<>> /\ IsSpace(Head(s)) THEN LStrip(Tail(s)) ELSE s

RECURSIVE RStrip(_)
RStrip(s) ==
    IF s # <<>> /\ IsSpace(s[Len(s)]) THEN RStrip(SubSeq(s, 1, Len(s) - 1)) ELSE s

\* str.strip()
Strip(s) == RStrip(LStrip(s))

\* a removal that would take the underscore too; C16_SlugKeepsUnderscore
\* fails for it
RECURSIVE RemoveSpecialAndUnderscore(_)
RemoveSpecialAndUnderscore(s) ==
    IF s = <<>> THEN <<>>
    ELSE IF (IsWord(Head(s)) /\ Head(s) # "_") \/ IsSpace(Head(s)) \/ Head(s) = "-"
         THEN <<Head(s)>> \o RemoveSpecialAndUnderscore(Tail(s))
         ELSE RemoveSpecialAndUnderscore(Tail(s))

\* re.sub(r'[^\w\s-]', '', text)
RECURSIVE RemoveSpecial(_)
RemoveSpecial(s) ==
    IF s = <<>> THEN <<>>
    ELSE IF IsWord(Head(s)) \/ IsSpace(Head(s)) \/ Head(s) = "-"
         THEN <<Head(s)>> \o RemoveSpecial(Tail(s))
         ELSE RemoveSpecial(Tail(s))

\* re.sub(r'\s+', '_', text): every maximal run of whitespace becomes one "_"
RECURSIVE CollapseSpace(_)
CollapseSpace(s) ==
    IF s = <<>> THEN <<>>
    ELSE IF IsSpace(Head(s))
         THEN <<"_">> \o CollapseSpace(LStrip(s))
         ELSE <<Head(s)>> \o CollapseSpace(Tail(s))

\* _clean_uri (a text of None is the empty sequence)
clean_uri(text) ==
    IF text = <<>> THEN <<>>
    ELSE Lower(CollapseSpace(Strip(RemoveSpecial(text))))

\* base.rstrip('/')
RECURSIVE RStripSlash(_)
RStripSlash(s) ==
    IF s # <<>> /\ s[Len(s)] = "/" THEN RStripSlash(SubSeq(s, 1, Len(s) - 1)) ELSE s

\* a URI built on the base as it stands; C17_GenerateUri fails for it
generate_uri_keep_slash(base, identifier) ==
    IF identifier = <<>> THEN base
    ELSE base \o <<"/">> \o clean_uri(identifier)

\* _generate_uri
generate_uri(base, identifier) ==
    IF identifier = <<>> THEN base
    ELSE RStripSlash(base) \o <<"/">> \o clean_uri(identifier)

\* str.replace(old, new) for a one-character old
RECURSIVE Replace(_, _, _)
Replace(s, old, new) ==
    IF s = <<>> THEN <<>>
    ELSE (IF Head(s) = old THEN new ELSE <<Head(s)>>) \o Replace(Tail(s), old, new)

\* the five substitutions with the backslash's last instead of first;
\* C11_EscapeComplete fails for it
escape_backslash_last(text) ==
    IF text = <<>> THEN <<>>
    ELSE LET e1 == Replace(text, "\"", <<"\\", "\"">>)
             e2 == Replace(e1, "\n", <<"\\", "n">>)
             e3 == Replace(e2, "\r", <<"\\", "r">>)
             e4 == Replace(e3, "\t", <<"\\", "t">>)
             e5 == Replace(e4, "\\", <<"\\", "\\">>)
         IN  e5

\* _escape_ttl_literal
escape_ttl_literal(text) ==
    IF text = <<>> THEN <<>>
    ELSE LET e1 == Replace(text, "\\", <<"\\", "\\">>)
             e2 == Replace(e1, "\"", <<"\\", "\"">>)
             e3 == Replace(e2, "\n", <<"\\", "n">>)
             e4 == Replace(e3, "\r", <<"\\", "r">>)
             e5 == Replace(e4, "\t", <<"\\", "t">>)
         IN  e5

\* " ".join(parts)
RECURSIVE Join(_)
Join(parts) ==
    IF parts = <<>> THEN <<>>
    ELSE IF Len(parts) = 1 THEN parts[1]
    ELSE parts[1] \o <<" ">> \o Join(Tail(parts))

\* the parts one child adds in _extract_text_content: its text and its tail,
\* each stripped, each only when not None/empty
ChildParts(child) ==
    (IF child.text # <<>> THEN <<Strip(child.text)>> ELSE <<>>)
    \o (IF child.tail # <<>> THEN <<Strip(child.tail)>> ELSE <<>>)

RECURSIVE ChildrenParts(_)
ChildrenParts(kids) ==
    IF kids = <<>> THEN <<>> ELSE ChildParts(Head(kids)) \o ChildrenParts(Tail(kids))

\* _extract_text_content of an element [text, kids]
extract_text_content(elem) ==
    Strip(Join((IF elem.text # <<>> THEN <<Strip(elem.text)>> ELSE <<>>)
               \o ChildrenParts(elem.kids)))

\* str(i) for a natural number
RECURSIVE Str(_)
Str(n) == IF n < 10 THEN <<Digits[n + 1]>> ELSE Str(n \div 10) \o <<Digits[(n % 10) + 1]>>

\* elem.get(name, default): an attribute is <<>> when absent, <<value>> when present
Get(attr, default) == IF attr = <<>> THEN default ELSE attr[1]


(***************************************************************************)
(* Output lines.  A line of the Turtle text is the record of the holes of  *)
(* its f-string: subject (<<>> on an indented continuation line, whose     *)
(* subject is that of the block's first line), predicate, object and the   *)
(* terminator.  A literal's val is exactly what is put between the quotes. *)
(***************************************************************************)
Uri(prefix, id) == <<prefix>> \o id

UriObj(u)          == [kind |-> "uri",   val |-> u,     tag |-> <<>>, dtype |-> ""]
ClassObj(c)        == [kind |-> "class", val |-> <<c>>, tag |-> <<>>, dtype |-> ""]
Lit(v)             == [kind |-> "lit",   val |-> v,     tag |-> <<>>, dtype |-> ""]
LangLit(v, t)      == [kind |-> "lang",  val |-> v,     tag |-> t,    dtype |-> ""]
TypedLit(v, d)     == [kind |-> "typed", val |-> v,     tag |-> <<>>, dtype |-> d]
NoObj              == [kind |-> "none",  val |-> <<>>,  tag |-> <<>>, dtype |-> ""]

Line(s, p, o, e) == [subj |-> s, pred |-> p, obj |-> o, end |-> e]
Text(t) == Line(<<>>, t, NoObj, "")

IsLiteral(o) == o.kind \in {"lit", "lang", "typed"}

\* lines 117-130 of generate_prov_ttl: prefixes, blank, the file entity, blank
Preamble(file_uri, file_path) ==
    << Text("@prefix prov: <http://www.w3.org/ns/prov#> ."),
       Text("@prefix foaf: <http://xmlns.com/foaf/0.1/> ."),
       Text("@prefix dcterms: <http://purl.org/dc/terms/> ."),
       Text("@prefix bibo: <http://purl.org/ontology/bibo/> ."),
       Text("@prefix mei: <http://www.music-encoding.org/ns/mei#> ."),
       Text("@prefix xsd: <http://www.w3.org/2001/XMLSchema#> ."),
       Text(""),
       Text("# MEI File Entity"),
       Line(file_uri, "a", ClassObj("prov:Entity"), ";"),
       Line(<<>>, "dcterms:type", Lit(<<"M","E","I"," ","M","u","s","i","c"," ",
                                        "E","n","c","o","d","i","n","g">>), ";"),
       Line(<<>>, "dcterms:source", Lit(file_path), "."),
       Text("") >>

(***************************************************************************)
(* pathlib: Path(p).name and Path(p).stem                                  *)
(***************************************************************************)
RECURSIVE PathName(_)
PathName(p) ==
    IF \E i \in DOMAIN p : p[i] = "/"
    THEN PathName(SubSeq(p, (CHOOSE i \in DOMAIN p : p[i] = "/") + 1, Len(p)))
    ELSE p

PathStem(p) ==
    LET name == PathName(p)
        dots == {i \in DOMAIN name : name[i] = "."}
        last == CHOOSE i \in dots : \A j \in dots : j <= i
    IN  IF dots # {} /\ last > 1 /\ last < Len(name)
        THEN SubSeq(name, 1, last - 1)
        ELSE name

\* dictionaries
EmptyDict == [k \in {} |-> <<>>]
\* a table in which an existing key keeps its value; the code's assignment
\* is Put below, and C3_InsertionLastWriterWins tells the two apart
PutFirst(d, k, v) == [x \in DOMAIN d \cup {k} |-> IF x \in DOMAIN d THEN d[x] ELSE v]

Put(d, k, v) == [x \in DOMAIN d \cup {k} |-> IF x = k THEN v ELSE d[x]]

\* entities.get('work', entities.get('source', None)); None is <<>>
TargetEntity(ents) ==
    IF "work" \in DOMAIN ents THEN ents["work"]
    ELSE IF "source" \in DOMAIN ents THEN ents["source"]
    ELSE <<>>

(***************************************************************************)
(* Fixed strings of the identifier scheme, as characters.                  *)
(***************************************************************************)
S_agent     == <<"a","g","e","n","t","_">>
S_org       == <<"o","r","g","_">>
S_publisher == <<"p","u","b","l","i","s","h","e","r","_">>
S_source    == <<"s","o","u","r","c","e","_">>
S_app       == <<"a","p","p","_">>
S_encoding  == <<"e","n","c","o","d","i","n","g","_">>
S_revision  == <<"r","e","v","i","s","i","o","n","_">>
S_change    == <<"c","h","a","n","g","e","_">>
S_edition   == <<"_","e","d","i","t","i","o","n">>
S_contributor == <<"c","o","n","t","r","i","b","u","t","o","r">>
S_main      == <<"m","a","i","n">>
S_PID       == <<"P","I","D">>
S_one       == <<"1">>


(***************************************************************************)
(* Inputs: the elements a header can hold.  An attribute or an optional    *)
(* child is <<>> when absent and <<value>> when present; an element with   *)
(* text content is [text, kids], kids being its children's text and tail.  *)
(***************************************************************************)
C_empty == [text |-> <<>>, kids |-> <<>>]
C_plain == [text |-> <<" ", "A", " ", "b", " ">>, kids |-> <<>>]
C_quote == [text |-> <<"q", "\"">>, kids |-> <<>>]
C_mixed == [text |-> <<"x">>, kids |-> <<[text |-> <<" ">>, tail |-> <<"\\", "\n">>]>>]

ID_x    == <<"x">>
REF_x   == <<"#", "x">>
REF_y   == <<"#", "y">>
ROLE_q  == <<"c", "\"">>
N_fore  == <<"J", "o">>
N_fam   == <<"B", " ", "c">>
V_num   == <<"2", "\"">>
D_iso   == <<"1", "9", "\\">>

FilePaths == { <<"d", "/", "A", " ", "b", ".", "m", "e", "i">> }

TYPE_alt == <<"a", "l", "t">>

Titles == [type : {<<>>, <<TYPE_alt>>}, content : {C_empty, C_mixed}]

\* a role is only read on an entry that has both names
PersNames ==
    {p \in [role : {<<>>, <<ROLE_q>>}, id : {<<>>, <<ID_x>>},
            fore : {<<>>, <<N_fore>>}, fam : {<<>>, <<N_fam>>}] :
        /\ p.role # <<>> => (p.fore # <<>> /\ p.fam # <<>>)
        /\ p.fam = <<>> => p.fore = <<>>}
    \cup {[role |-> <<>>, id |-> <<>>, fore |-> <<N_fore>>, fam |-> <<>>]}

CorpNames == [role : {<<>>}, id : {<<>>, <<ID_x>>}, content : {C_empty, C_plain}]

Editions ==
    {e \in [n : {<<>>, <<V_num>>}, resp : {<<>>, <<REF_x>>}, content : {C_empty, C_quote}] :
        e.content = C_empty => e.n = <<>>}

\* <publisher>: its first <corpName>, if any
Publishers == [corpName : {<<>>, <<C_empty>>, <<C_plain>>}]

Dates == {d \in [isodate : {<<>>, <<D_iso>>}, content : {C_empty, C_quote}] :
            d.isodate # <<>> => d.content = C_empty}

PubPlaces == {C_empty, C_quote}

Identifiers == {x \in [type : {<<>>, <<V_num>>}, content : {C_empty, C_plain}] :
                  x.content = C_empty => x.type = <<>>}

\* <analytic> and <monogr>: the first <title>, and whether a <respStmt> is there
BiblLevels == [title : {<<>>, <<C_quote>>}, resp : BOOLEAN]

\* <imprint>: its first <date>, if any
Imprints == [date : {<<>>} \cup {<<d>> : d \in Dates}]

\* name, version and end date come together in the modelled entries
Applications ==
    {a \in [id : {<<>>, <<ID_x>>}, name : {<<>>, <<C_quote>>},
            version : {<<>>, <<V_num>>},
            startdate : {<<>>, <<D_iso>>}, enddate : {<<>>, <<D_iso>>}] :
        /\ (a.name = <<>>) = (a.version = <<>>)
        /\ (a.version = <<>>) = (a.enddate = <<>>)}

\* <change>: desc is <<>> without <changeDesc>, <<<<>>>> with a <changeDesc>
\* that has no <p>, and <<<<content>>>> with the first <p> of <changeDesc>;
\* n and isodate come together in the modelled entries
Changes ==
    {c \in [n : {<<>>, <<ID_x>>}, resp : {<<>>, <<REF_x>>, <<REF_y>>, <<ID_x>>},
            isodate : {<<>>, <<D_iso>>},
            desc : {<<>>, << <<>> >>, << <<C_quote>> >>}] :
        /\ (c.n = <<>>) = (c.isodate = <<>>)
        /\ c.desc = << <<>> >> => (c.n = <<>> /\ c.resp = <<>>)
        /\ c.desc = <<>> => c.n = <<>>}

(***************************************************************************)
(* State.                                                                  *)
(***************************************************************************)
VARIABLES
    pc,         \* where generate_prov_ttl and its helpers are
    file_path,  \* the argument of generate_prov_ttl
    entities,   \* generate_prov_ttl's entities dictionary
    agents,     \* generate_prov_ttl's agents dictionary
    activities, \* generate_prov_ttl's activities dictionary
    ttl_lines,  \* the lines produced so far
    resp_entities, \* the entities argument of the running _process_respstmt
    ret,        \* where the running _process_respstmt returns to
    idx,        \* i of the running enumerate() loop
    source_uri, \* source_uri of the running _process_sourcedesc iteration
    header,     \* the elements of the header read so far (the input)
    elems,      \* number of data-carrying elements read in this run
    nfiles,     \* number of documents this run converts
    ndocs,      \* number of conversions finished in this run
    past,       \* local ids the finished conversions had in their agents tables
    fn,         \* the helper function called on its own, "none" in a conversion
    arg,        \* its argument
    res,        \* what it has returned so far: <<>> before the call returns
    rpc,        \* where the main of a batch driver is, "none" outside a batch run
    it,         \* number of files the loop over mei_files has taken
    all_results,            \* parse_provenance_batch.py main's all_results
    all_ttl_outputs,        \* parse_provenance_prov_batch.py main's all_ttl_outputs
    successful_extractions, \* main's successful_extractions
    failed_extractions,     \* main's failed_extractions
    calls,      \* the calls of extract_*_from_file so far: the file, the result
    listed,     \* the files printed under FAILED EXTRACTIONS
    schemas,    \* validate_encodings.py main's schemas
    errors,     \* validate_encodings.py main's errors
    fetched,    \* the calls of requests.get so far: the URL, what came of it
    validated   \* the calls of validate_mei_file so far: the file, the schema

\* the state of a conversion, and the state of a call of one helper on its own
docVars == <<pc, file_path, entities, agents, activities, ttl_lines, resp_entities,
             ret, idx, source_uri, header, elems, nfiles, ndocs, past>>

callVars == <<fn, arg, res>>

\* the state of the main of a batch driver
runVars == <<rpc, it, all_results, all_ttl_outputs, successful_extractions,
             failed_extractions, calls, listed>>

vars == <<pc, file_path, entities, agents, activities, ttl_lines, resp_entities,
          ret, idx, source_uri, header, elems, nfiles, ndocs, past, fn, arg, res,
          rpc, it, all_results, all_ttl_outputs, successful_extractions,
          failed_extractions, calls, listed, schemas, errors, fetched, validated>>

InitLocals ==
    /\ pc = "idle"
    /\ file_path = <<>>
    /\ entities = EmptyDict
    /\ agents = EmptyDict
    /\ activities = EmptyDict
    /\ ttl_lines = <<>>
    /\ resp_entities = EmptyDict
    /\ ret = "idle"
    /\ idx = 0
    /\ source_uri = <<>>
    /\ header = <<>>
    /\ elems = 0
    /\ ndocs = 0
    /\ past = {}

\* no helper is called on its own
NoCall == fn = "none" /\ arg = <<>> /\ res = <<>>

\* lines 68-70 (60-62 of the provenance driver): main's locals before its loop
InitMain ==
    /\ it = 0
    /\ all_results = <<>>
    /\ all_ttl_outputs = <<>>
    /\ successful_extractions = 0
    /\ failed_extractions = 0
    /\ calls = <<>>
    /\ listed = <<>>

\* the state of the main of the validator
valVars == <<schemas, errors, fetched, validated>>

\* validate_encodings.py lines 32-33: main's locals before its loop
InitSchemas ==
    /\ schemas = EmptyDict
    /\ errors = <<>>
    /\ fetched = <<>>
    /\ validated = <<>>

\* no batch driver runs
NoRun == rpc = "none" /\ InitMain /\ InitSchemas

\* parse_provenance_prov.py main: one document
Init == InitLocals /\ nfiles = 1 /\ NoCall /\ NoRun

\* parse_provenance_prov_batch.py main: one conversion for every file found
InitBatch == InitLocals /\ nfiles = MaxDocs /\ NoCall /\ NoRun

\* One more data-carrying element of the header is read and handled (an
\* element without text or attributes of its own is not counted).  The log keeps the
\* element, where it stands (ctx), the agents and activities tables as the
\* handler found them and the lines the handler added.
LogEntry(kind, el, ctx, lines) ==
    [kind |-> kind, el |-> el, ctx |-> ctx, tab |-> agents, acts |-> activities,
     out |-> lines]

Step(kind, el, ctx, lines) ==
    /\ elems < MaxElems
    /\ elems' = elems + 1
    /\ header' = Append(header, LogEntry(kind, el, ctx, lines))
    /\ ttl_lines' = ttl_lines \o lines

NoRead == UNCHANGED <<header, elems>>

(***************************************************************************)
(* generate_prov_ttl                                                       *)
(***************************************************************************)
\* a conversion that would keep the tables of the conversion before it;
\* C4_FreshTables fails for it
StartDocShared(fp) ==
    /\ pc = "idle"
    /\ UNCHANGED callVars
    /\ UNCHANGED runVars
    /\ UNCHANGED valVars
    /\ ndocs < nfiles
    /\ file_path' = fp
    /\ entities' = [file    |-> Uri("mei:file/", clean_uri(PathName(fp))),
                    work    |-> Uri("mei:work/", clean_uri(PathStem(fp))),
                    edition |-> Uri("mei:edition/", clean_uri(PathStem(fp)) \o S_edition)]
    /\ ttl_lines' = Preamble(Uri("mei:file/", clean_uri(PathName(fp))), fp)
    /\ header' = <<>>
    /\ pc' = "fileDesc"
    /\ UNCHANGED <<agents, activities, resp_entities, ret, idx, source_uri,
                   elems, nfiles, ndocs, past>>

\* lines 97-130: the URIs, the fresh tables, the preamble
StartDoc(fp) ==
    /\ pc = "idle"
    /\ UNCHANGED callVars
    /\ UNCHANGED runVars
    /\ UNCHANGED valVars
    /\ ndocs < nfiles
    /\ file_path' = fp
    /\ entities' = [file    |-> Uri("mei:file/", clean_uri(PathName(fp))),
                    work    |-> Uri("mei:work/", clean_uri(PathStem(fp))),
                    edition |-> Uri("mei:edition/", clean_uri(PathStem(fp)) \o S_edition)]
    /\ agents' = EmptyDict
    /\ activities' = EmptyDict
    /\ ttl_lines' = Preamble(Uri("mei:file/", clean_uri(PathName(fp))), fp)
    /\ header' = <<>>
    /\ pc' = "fileDesc"
    /\ UNCHANGED <<resp_entities, ret, idx, source_uri, elems, nfiles, ndocs, past>>

\* lines 133-135 and 151-156: mei_head.find("mei:fileDesc")
FileDesc(present) ==
    /\ pc = "fileDesc"
    /\ UNCHANGED callVars
    /\ UNCHANGED runVars
    /\ UNCHANGED valVars
    /\ pc' = IF present THEN "titleStmt" ELSE "encodingDesc"
    /\ UNCHANGED <<file_path, entities, agents, activities, ttl_lines, resp_entities,
                   ret, idx, source_uri, header, elems, nfiles, ndocs, past>>

(***************************************************************************)
(* _process_titlestmt                                                      *)
(***************************************************************************)
\* lines 154-156: file_desc.find("mei:titleStmt")
TitleStmt(present) ==
    /\ pc = "titleStmt"
    /\ UNCHANGED callVars
    /\ UNCHANGED runVars
    /\ UNCHANGED valVars
    /\ pc' = IF present THEN "titles" ELSE "editionStmt"
    /\ UNCHANGED <<file_path, entities, agents, activities, ttl_lines, resp_entities,
                   ret, idx, source_uri, header, elems, nfiles, ndocs, past>>

\* a title statement emitted whatever the text; C9_TitleStatement fails for it
TitleLinesAlways(t, ents) ==
    << Line(ents["work"], "dcterms:title",
            LangLit(escape_ttl_literal(extract_text_content(t.content)),
                    Get(t.type, S_main)), ".") >>

\* lines 182-186: what one <title> adds
TitleLines(t, ents) ==
    LET title_type == Get(t.type, S_main)
        title_text == extract_text_content(t.content)
    IN  IF title_text # <<>>
        THEN << Line(ents["work"], "dcterms:title",
                     LangLit(escape_ttl_literal(title_text), title_type), ".") >>
        ELSE <<>>

\* lines 181-186: one iteration of the loop over the titles
ProcessTitle(t) ==
    /\ pc = "titles"
    /\ UNCHANGED callVars
    /\ UNCHANGED runVars
    /\ UNCHANGED valVars
    /\ Step("title", t, <<>>,
            TitleLines(t, entities))
    /\ UNCHANGED <<pc, file_path, entities, agents, activities, resp_entities,
                   ret, idx, source_uri, nfiles, ndocs, past>>

\* line 189: the loop over the titles is over
TitlesDone ==
    /\ pc = "titles"
    /\ UNCHANGED callVars
    /\ UNCHANGED runVars
    /\ UNCHANGED valVars
    /\ pc' = "respStmts"
    /\ UNCHANGED <<file_path, entities, agents, activities, ttl_lines, resp_entities,
                   ret, idx, source_uri, header, elems, nfiles, ndocs, past>>

\* lines 190-191 and 197-202: _process_respstmt(resp_stmt, entities, agents)
TitleRespStmt ==
    /\ pc = "respStmts"
    /\ UNCHANGED callVars
    /\ UNCHANGED runVars
    /\ UNCHANGED valVars
    /\ resp_entities' = entities
    /\ ret' = "respStmts"
    /\ pc' = IF TargetEntity(entities) = <<>> THEN "respStmts" ELSE "persNames"
    /\ UNCHANGED <<file_path, entities, agents, activities, ttl_lines,
                   idx, source_uri, header, elems, nfiles, ndocs, past>>

\* line 193: the loop over the responsibility statements is over
RespStmtsDone ==
    /\ pc = "respStmts"
    /\ UNCHANGED callVars
    /\ UNCHANGED runVars
    /\ UNCHANGED valVars
    /\ pc' = "editionStmt"
    /\ UNCHANGED <<file_path, entities, agents, activities, ttl_lines, resp_entities,
                   ret, idx, source_uri, header, elems, nfiles, ndocs, past>>

(***************************************************************************)
(* _process_respstmt                                                       *)
(***************************************************************************)
\* line 214 and line 224
HasNames(p) == p.fore # <<>> /\ p.fam # <<>>

\* a synthesized id built from the raw names, without _clean_uri;
\* C5_SynthesizedPerson fails for it
PersAgentIdRaw(p) ==
    LET agent_id == Get(p.id, <<>>)
    IN  IF agent_id # <<>> THEN agent_id
        ELSE IF HasNames(p)
             THEN S_agent \o p.fore[1] \o <<"_">> \o p.fam[1]
             ELSE <<>>

\* lines 208-215: the local id of a <persName>
PersAgentId(p) ==
    LET agent_id == Get(p.id, <<>>)
    IN  IF agent_id # <<>> THEN agent_id
        ELSE IF HasNames(p)
             THEN S_agent \o clean_uri(p.fore[1]) \o <<"_">> \o clean_uri(p.fam[1])
             ELSE <<>>

\* lines 207 and 217-231: what one <persName> adds
PersLines(p, target_entity) ==
    LET role == Get(p.role, S_contributor)
        agent_uri == Uri("mei:agent/", PersAgentId(p))
    IN  IF HasNames(p)
        THEN << Line(agent_uri, "a", ClassObj("foaf:Person"), ";"),
                Line(<<>>, "foaf:givenName", Lit(escape_ttl_literal(p.fore[1])), ";"),
                Line(<<>>, "foaf:familyName", Lit(escape_ttl_literal(p.fam[1])), "."),
                Line(target_entity, "dcterms:creator", UriObj(agent_uri), "."),
                Line(agent_uri, "prov:hadRole", Lit(role), ".") >>
        ELSE <<>>

\* lines 206-231: one iteration of the loop over the person names
ProcessPersName(p) ==
    /\ pc = "persNames"
    /\ UNCHANGED callVars
    /\ UNCHANGED runVars
    /\ UNCHANGED valVars
    /\ Step("persName", p, TargetEntity(resp_entities),
            PersLines(p, TargetEntity(resp_entities)))
    /\ agents' = Put(agents, PersAgentId(p), Uri("mei:agent/", PersAgentId(p)))
    /\ UNCHANGED <<pc, file_path, entities, activities, resp_entities,
                   ret, idx, source_uri, nfiles, ndocs, past>>

\* line 234: the loop over the person names is over
PersNamesDone ==
    /\ pc = "persNames"
    /\ UNCHANGED callVars
    /\ UNCHANGED runVars
    /\ UNCHANGED valVars
    /\ pc' = "corpNames"
    /\ UNCHANGED <<file_path, entities, agents, activities, ttl_lines, resp_entities,
                   ret, idx, source_uri, header, elems, nfiles, ndocs, past>>

\* lines 237-242: the local id of a <corpName>
CorpId(c) ==
    LET corp_id == Get(c.id, <<>>)
    IN  IF corp_id # <<>> THEN corp_id
        ELSE S_org \o clean_uri(extract_text_content(c.content))

\* lines 236 and 244-255: what one <corpName> adds
CorpLines(c, target_entity) ==
    LET role == Get(c.role, S_contributor)
        corp_uri == Uri("mei:organization/", CorpId(c))
        corp_text == extract_text_content(c.content)
    IN  IF corp_text # <<>>
        THEN << Line(corp_uri, "a", ClassObj("foaf:Organization"), ";"),
                Line(<<>>, "foaf:name", Lit(escape_ttl_literal(corp_text)), "."),
                Line(target_entity, "dcterms:contributor", UriObj(corp_uri), "."),
                Line(corp_uri, "prov:hadRole", Lit(role), ".") >>
        ELSE <<>>

\* lines 235-255: one iteration of the loop over the corporate names
ProcessCorpName(c) ==
    /\ pc = "corpNames"
    /\ UNCHANGED callVars
    /\ UNCHANGED runVars
    /\ UNCHANGED valVars
    /\ Step("corpName", c, TargetEntity(resp_entities),
            CorpLines(c, TargetEntity(resp_entities)))
    /\ agents' = Put(agents, CorpId(c), Uri("mei:organization/", CorpId(c)))
    /\ UNCHANGED <<pc, file_path, entities, activities, resp_entities,
                   ret, idx, source_uri, nfiles, ndocs, past>>

\* line 257: return to the caller; the call's arguments are gone
CorpNamesDone ==
    /\ pc = "corpNames"
    /\ UNCHANGED callVars
    /\ UNCHANGED runVars
    /\ UNCHANGED valVars
    /\ pc' = ret
    /\ ret' = "idle"
    /\ resp_entities' = EmptyDict
    /\ UNCHANGED <<file_path, entities, agents, activities, ttl_lines,
                   idx, source_uri, header, elems, nfiles, ndocs, past>>


(***************************************************************************)
(* _process_editionstmt                                                    *)
(***************************************************************************)
\* lines 159-161 and 263: file_desc.find("mei:editionStmt")
EditionStmt(present) ==
    /\ pc = "editionStmt"
    /\ UNCHANGED callVars
    /\ UNCHANGED runVars
    /\ UNCHANGED valVars
    /\ pc' = IF present THEN "editions" ELSE "pubStmt"
    /\ UNCHANGED <<file_path, entities, agents, activities, ttl_lines, resp_entities,
                   ret, idx, source_uri, header, elems, nfiles, ndocs, past>>

\* an edition that would never look its resp up; C1_EditionCreatorLink
\* fails for it
EditionResolvesNever(resp, ags) == FALSE

\* line 278: resp and resp.startswith("#") and resp[1:] in agents
EditionResolves(resp, ags) ==
    resp # <<>> /\ Head(resp) = "#" /\ Tail(resp) \in DOMAIN ags

\* lines 265-280: what one <edition> adds
EditionLines(e, ents, ags) ==
    LET edition_text == extract_text_content(e.content)
        edition_n == Get(e.n, S_one)
        resp == Get(e.resp, <<>>)
    IN  IF edition_text # <<>>
        THEN << Line(ents["edition"], "a", ClassObj("bibo:Document"), ";"),
                Line(<<>>, "dcterms:description", Lit(escape_ttl_literal(edition_text)), ";"),
                Line(<<>>, "dcterms:edition", Lit(edition_n), "."),
                Line(ents["work"], "bibo:edition", UriObj(ents["edition"]), ".") >>
             \o (IF EditionResolves(resp, ags)
                 THEN << Line(ents["edition"], "dcterms:creator", UriObj(ags[Tail(resp)]), ".") >>
                 ELSE <<>>)
        ELSE <<>>

\* lines 264-280: one iteration of the loop over the editions
ProcessEdition(e) ==
    /\ pc = "editions"
    /\ UNCHANGED callVars
    /\ UNCHANGED runVars
    /\ UNCHANGED valVars
    /\ Step("edition", e, <<>>,
            EditionLines(e, entities, agents))
    /\ UNCHANGED <<pc, file_path, entities, agents, activities, resp_entities,
                   ret, idx, source_uri, nfiles, ndocs, past>>

\* line 282: the loop over the editions is over
EditionsDone ==
    /\ pc = "editions"
    /\ UNCHANGED callVars
    /\ UNCHANGED runVars
    /\ UNCHANGED valVars
    /\ pc' = "pubStmt"
    /\ UNCHANGED <<file_path, entities, agents, activities, ttl_lines, resp_entities,
                   ret, idx, source_uri, header, elems, nfiles, ndocs, past>>

(***************************************************************************)
(* _process_pubstmt                                                        *)
(***************************************************************************)
\* lines 164-166: file_desc.find("mei:pubStmt")
PubStmt(present) ==
    /\ pc = "pubStmt"
    /\ UNCHANGED callVars
    /\ UNCHANGED runVars
    /\ UNCHANGED valVars
    /\ pc' = IF present THEN "publisher" ELSE "sourceDesc"
    /\ UNCHANGED <<file_path, entities, agents, activities, ttl_lines, resp_entities,
                   ret, idx, source_uri, header, elems, nfiles, ndocs, past>>

\* lines 291-294: the publisher's name, <<>> when there is none
PublisherText(pub) ==
    IF pub.corpName = <<>> THEN <<>> ELSE extract_text_content(pub.corpName[1])

\* line 295
PublisherId(pub) == S_publisher \o clean_uri(PublisherText(pub))

\* lines 299-301
PublisherLines(pub, ents) ==
    LET pub_uri == Uri("mei:organization/", PublisherId(pub))
    IN  IF PublisherText(pub) # <<>>
        THEN << Line(pub_uri, "a", ClassObj("foaf:Organization"), ";"),
                Line(<<>>, "foaf:name", Lit(escape_ttl_literal(PublisherText(pub))), "."),
                Line(ents["work"], "dcterms:publisher", UriObj(pub_uri), ".") >>
        ELSE <<>>

\* lines 289-301: pub_stmt.find("mei:publisher"), <<>> when there is none
ProcessPublisher(o) ==
    /\ pc = "publisher"
    /\ UNCHANGED callVars
    /\ UNCHANGED runVars
    /\ UNCHANGED valVars
    /\ IF o = <<>>
       THEN /\ NoRead
            /\ UNCHANGED <<agents, ttl_lines>>
       ELSE /\ Step("publisher", o[1], <<>>, PublisherLines(o[1], entities))
            /\ agents' = IF PublisherText(o[1]) # <<>>
                         THEN Put(agents, PublisherId(o[1]),
                                  Uri("mei:organization/", PublisherId(o[1])))
                         ELSE agents
    /\ pc' = "pubDate"
    /\ UNCHANGED <<file_path, entities, activities, resp_entities,
                   ret, idx, source_uri, nfiles, ndocs, past>>

\* lines 306-311 (dtype "xsd:date") and 387-392 (dtype "xsd:gYear")
DateLines(d, subject, pred, dtype) ==
    LET date_text == extract_text_content(d.content)
        isodate == Get(d.isodate, <<>>)
    IN  IF isodate # <<>>
        THEN << Line(subject, pred, TypedLit(isodate, dtype), ".") >>
        ELSE IF date_text # <<>>
             THEN << Line(subject, pred, Lit(escape_ttl_literal(date_text)), ".") >>
             ELSE <<>>

\* lines 304-311: pub_stmt.find("mei:date")
ProcessPubDate(o) ==
    /\ pc = "pubDate"
    /\ UNCHANGED callVars
    /\ UNCHANGED runVars
    /\ UNCHANGED valVars
    /\ IF o = <<>>
       THEN NoRead /\ UNCHANGED ttl_lines
       ELSE /\ Step("date", o[1], <<>>,
                    DateLines(o[1], entities["work"], "dcterms:issued", "xsd:date"))
    /\ pc' = "pubPlace"
    /\ UNCHANGED <<file_path, entities, agents, activities, resp_entities,
                   ret, idx, source_uri, nfiles, ndocs, past>>

\* lines 316-318
PubPlaceLines(c, ents) ==
    LET place_text == extract_text_content(c)
    IN  IF place_text # <<>>
        THEN << Line(ents["work"], "dcterms:spatial", Lit(escape_ttl_literal(place_text)), ".") >>
        ELSE <<>>

\* lines 314-318: pub_stmt.find("mei:pubPlace")
ProcessPubPlace(o) ==
    /\ pc = "pubPlace"
    /\ UNCHANGED callVars
    /\ UNCHANGED runVars
    /\ UNCHANGED valVars
    /\ IF o = <<>>
       THEN NoRead /\ UNCHANGED ttl_lines
       ELSE /\ Step("pubPlace", [content |-> o[1]], <<>>,
                    PubPlaceLines(o[1], entities))
    /\ pc' = "identifier"
    /\ UNCHANGED <<file_path, entities, agents, activities, resp_entities,
                   ret, idx, source_uri, nfiles, ndocs, past>>

\* lines 323-327
IdentifierLines(x, ents) ==
    LET id_text == extract_text_content(x.content)
        id_type == Get(x.type, S_PID)
    IN  IF id_text # <<>>
        THEN << Line(ents["work"], "dcterms:identifier", Lit(escape_ttl_literal(id_text)), "."),
                Line(ents["work"], "dcterms:identifierType", Lit(id_type), ".") >>
        ELSE <<>>

\* lines 321-329: pub_stmt.find("mei:identifier"), and the return
ProcessIdentifier(o) ==
    /\ pc = "identifier"
    /\ UNCHANGED callVars
    /\ UNCHANGED runVars
    /\ UNCHANGED valVars
    /\ IF o = <<>>
       THEN NoRead /\ UNCHANGED ttl_lines
       ELSE /\ Step("identifier", o[1], <<>>,
                    IdentifierLines(o[1], entities))
    /\ pc' = "sourceDesc"
    /\ UNCHANGED <<file_path, entities, agents, activities, resp_entities,
                   ret, idx, source_uri, nfiles, ndocs, past>>

(***************************************************************************)
(* _process_sourcedesc and _process_biblstruct                             *)
(***************************************************************************)
\* lines 169-173 and 335: file_desc.find("mei:sourceDesc")
SourceDesc(present) ==
    /\ pc = "sourceDesc"
    /\ UNCHANGED callVars
    /\ UNCHANGED runVars
    /\ UNCHANGED valVars
    /\ pc' = IF present THEN "sources" ELSE "encodingDesc"
    /\ idx' = 0
    /\ UNCHANGED <<file_path, entities, agents, activities, ttl_lines, resp_entities,
                   ret, source_uri, header, elems, nfiles, ndocs, past>>

\* lines 337-338, i being the 0-based index of enumerate()
SourceUri(i) == Uri("mei:source/", S_source \o Str(i + 1))

\* lines 340-341
SourceLines(i, ents) ==
    << Line(SourceUri(i), "a", ClassObj("bibo:Document"), "."),
       Line(ents["work"], "dcterms:source", UriObj(SourceUri(i)), ".") >>

\* lines 336-346: one iteration of the loop over the sources, up to
\* source.find("mei:biblStruct")
ProcessSource(hasBiblStruct) ==
    /\ pc = "sources"
    /\ UNCHANGED callVars
    /\ UNCHANGED runVars
    /\ UNCHANGED valVars
    /\ idx < MaxSources
    /\ source_uri' = SourceUri(idx)
    /\ ttl_lines' = ttl_lines \o SourceLines(idx, entities)
    /\ idx' = idx + 1
    /\ header' = Append(header, LogEntry("source", [n |-> idx + 1], SourceUri(idx),
                                          SourceLines(idx, entities)))
    /\ pc' = IF hasBiblStruct THEN "analytic" ELSE "sources"
    /\ UNCHANGED <<file_path, entities, agents, activities, resp_entities,
                   ret, elems, nfiles, ndocs, past>>

\* line 348: the loop over the sources is over; its variables are gone
SourcesDone ==
    /\ pc = "sources"
    /\ UNCHANGED callVars
    /\ UNCHANGED runVars
    /\ UNCHANGED valVars
    /\ pc' = "encodingDesc"
    /\ idx' = 0
    /\ source_uri' = <<>>
    /\ UNCHANGED <<file_path, entities, agents, activities, ttl_lines, resp_entities,
                   ret, header, elems, nfiles, ndocs, past>>

\* lines 357-361 (pred "dcterms:title") and 371-375 (pred "dcterms:isPartOf")
BiblTitleLines(a, subject, pred) ==
    IF a.title # <<>> /\ extract_text_content(a.title[1]) # <<>>
    THEN << Line(subject, pred, Lit(escape_ttl_literal(extract_text_content(a.title[1]))), ".") >>
    ELSE <<>>

\* a target that would stay the first source; C8_SourceSubjects fails for it
SourceEntitiesFirst(uri) == [source |-> <<"mei:source/">> \o S_source \o <<"1">>]

\* line 366 and line 380: the entities argument of the nested _process_respstmt
SourceEntities(uri) == [source |-> uri]

\* lines 355-366: bibl_struct.find("mei:analytic"), <<>> when there is none;
\* with a <respStmt>, _process_respstmt runs on the current source
ProcessAnalytic(o) ==
    /\ pc = "analytic"
    /\ UNCHANGED callVars
    /\ UNCHANGED runVars
    /\ UNCHANGED valVars
    /\ IF o = <<>>
       THEN /\ NoRead
            /\ pc' = "monogr"
            /\ UNCHANGED <<ttl_lines, resp_entities, ret>>
       ELSE /\ IF o[1].title = <<>>
               THEN NoRead /\ UNCHANGED ttl_lines
               ELSE Step("analytic", o[1], source_uri,
                         BiblTitleLines(o[1], source_uri, "dcterms:title"))
            /\ IF o[1].resp
               THEN /\ resp_entities' = SourceEntities(source_uri)
                    /\ ret' = "monogr"
                    /\ pc' = IF TargetEntity(SourceEntities(source_uri)) = <<>>
                             THEN "monogr" ELSE "persNames"
               ELSE /\ pc' = "monogr"
                    /\ UNCHANGED <<resp_entities, ret>>
    /\ UNCHANGED <<file_path, entities, agents, activities, idx, source_uri, nfiles, ndocs, past>>

\* lines 369-380: bibl_struct.find("mei:monogr"), <<>> when there is none
ProcessMonogr(o) ==
    /\ pc = "monogr"
    /\ UNCHANGED callVars
    /\ UNCHANGED runVars
    /\ UNCHANGED valVars
    /\ IF o = <<>>
       THEN /\ NoRead
            /\ pc' = "sources"
            /\ UNCHANGED <<ttl_lines, resp_entities, ret>>
       ELSE /\ IF o[1].title = <<>>
               THEN NoRead /\ UNCHANGED ttl_lines
               ELSE Step("monogr", o[1], source_uri,
                         BiblTitleLines(o[1], source_uri, "dcterms:isPartOf"))
            /\ IF o[1].resp
               THEN /\ resp_entities' = SourceEntities(source_uri)
                    /\ ret' = "imprint"
                    /\ pc' = IF TargetEntity(SourceEntities(source_uri)) = <<>>
                             THEN "imprint" ELSE "persNames"
               ELSE /\ pc' = "imprint"
                    /\ UNCHANGED <<resp_entities, ret>>
    /\ UNCHANGED <<file_path, entities, agents, activities, idx, source_uri, nfiles, ndocs, past>>

\* lines 383-394: monogr.find("mei:imprint"), <<>> when there is none
ProcessImprint(o) ==
    /\ pc = "imprint"
    /\ UNCHANGED callVars
    /\ UNCHANGED runVars
    /\ UNCHANGED valVars
    /\ IF o = <<>> \/ o[1].date = <<>>
       THEN NoRead /\ UNCHANGED ttl_lines
       ELSE /\ Step("imprint", o[1], source_uri,
                    DateLines(o[1].date[1], source_uri, "dcterms:created", "xsd:gYear"))
    /\ pc' = "sources"
    /\ UNCHANGED <<file_path, entities, agents, activities, resp_entities,
                   ret, idx, source_uri, nfiles, ndocs, past>>


(***************************************************************************)
(* _process_encodingdesc and _process_appinfo                              *)
(***************************************************************************)
\* a step that would write a line for a missing <encodingDesc>;
\* C19_AbsentIsNoOp fails for it
EncodingDescLoud(present) ==
    /\ pc = "encodingDesc"
    /\ UNCHANGED callVars
    /\ UNCHANGED runVars
    /\ UNCHANGED valVars
    /\ pc' = IF present THEN "applications" ELSE "revisionDesc"
    /\ idx' = 0
    /\ ttl_lines' = IF present THEN ttl_lines ELSE Append(ttl_lines, Text("# no encodingDesc"))
    /\ UNCHANGED <<file_path, entities, agents, activities, resp_entities,
                   ret, source_uri, header, elems, nfiles, ndocs, past>>

\* lines 138-140, 401-403 and 411: mei_head.find("mei:encodingDesc") and
\* encoding_desc.find("mei:appInfo"); present when both are found
EncodingDesc(present) ==
    /\ pc = "encodingDesc"
    /\ UNCHANGED callVars
    /\ UNCHANGED runVars
    /\ UNCHANGED valVars
    /\ pc' = IF present THEN "applications" ELSE "revisionDesc"
    /\ idx' = 0
    /\ UNCHANGED <<file_path, entities, agents, activities, ttl_lines, resp_entities,
                   ret, source_uri, header, elems, nfiles, ndocs, past>>

\* a fallback id counted from 0; C7_ApplicationIds fails for it
AppIdFromZero(app, i) == Get(app.id, S_app \o Str(i))

\* line 413, i being the 0-based index of enumerate()
AppId(app, i) == Get(app.id, S_app \o Str(i + 1))

\* line 440
AppActivityId(app, i) == S_encoding \o AppId(app, i)

\* lines 432-437 and 449-452: the timestamps, on the agent and on the activity
TimeLines(app, subject) ==
    LET start_date == Get(app.startdate, <<>>)
        end_date == Get(app.enddate, <<>>)
    IN  (IF start_date # <<>>
         THEN << Line(subject, "prov:startedAtTime", TypedLit(start_date, "xsd:dateTime"), ".") >>
         ELSE <<>>)
        \o (IF end_date # <<>>
            THEN << Line(subject, "prov:endedAtTime", TypedLit(end_date, "xsd:dateTime"), ".") >>
            ELSE <<>>)

\* lines 414-452: what one <application> adds
AppLines(app, i, ents) ==
    LET app_uri == Uri("mei:software/", AppId(app, i))
        app_name == IF app.name = <<>> THEN <<>> ELSE extract_text_content(app.name[1])
        version == Get(app.version, <<>>)
        activity_uri == Uri("mei:activity/", AppActivityId(app, i))
    IN  << Line(app_uri, "a", ClassObj("prov:SoftwareAgent"), ".") >>
        \o (IF app_name # <<>>
            THEN << Line(app_uri, "foaf:name", Lit(escape_ttl_literal(app_name)), ".") >>
            ELSE <<>>)
        \o (IF version # <<>>
            THEN << Line(app_uri, "dcterms:version", Lit(version), ".") >>
            ELSE <<>>)
        \o TimeLines(app, app_uri)
        \o << Line(activity_uri, "a", ClassObj("prov:Activity"), ";"),
              Line(<<>>, "prov:wasAssociatedWith", UriObj(app_uri), ";"),
              Line(<<>>, "prov:used", UriObj(ents["work"]), ";"),
              Line(<<>>, "prov:generated", UriObj(ents["file"]), ".") >>
        \o TimeLines(app, activity_uri)

\* lines 412-452: one iteration of the loop over the applications
ProcessApplication(app) ==
    /\ pc = "applications"
    /\ UNCHANGED callVars
    /\ UNCHANGED runVars
    /\ UNCHANGED valVars
    /\ Step("application", app, Str(idx + 1), AppLines(app, idx, entities))
    /\ activities' = Put(activities, AppActivityId(app, idx),
                         Uri("mei:activity/", AppActivityId(app, idx)))
    /\ idx' = idx + 1
    /\ UNCHANGED <<pc, file_path, entities, agents, resp_entities,
                   ret, source_uri, nfiles, ndocs, past>>

\* line 454: the loop over the applications is over
ApplicationsDone ==
    /\ pc = "applications"
    /\ UNCHANGED callVars
    /\ UNCHANGED runVars
    /\ UNCHANGED valVars
    /\ pc' = "revisionDesc"
    /\ idx' = 0
    /\ UNCHANGED <<file_path, entities, agents, activities, ttl_lines, resp_entities,
                   ret, source_uri, header, elems, nfiles, ndocs, past>>

(***************************************************************************)
(* _process_revisiondesc                                                   *)
(***************************************************************************)
\* lines 143-145 and 460: mei_head.find("mei:revisionDesc")
RevisionDesc(present) ==
    /\ pc = "revisionDesc"
    /\ UNCHANGED callVars
    /\ UNCHANGED runVars
    /\ UNCHANGED valVars
    /\ pc' = IF present THEN "changes" ELSE "done"
    /\ idx' = 0
    /\ UNCHANGED <<file_path, entities, agents, activities, ttl_lines, resp_entities,
                   ret, source_uri, header, elems, nfiles, ndocs, past>>

\* lines 462 and 464, i being the 0-based index of enumerate()
ChangeActivityId(ch, i) == S_revision \o Get(ch.n, S_change \o Str(i + 1))

\* lines 467-471: the text of <changeDesc>/<p>, <<>> when there is none
ChangeText(ch) ==
    IF ch.desc = <<>> \/ ch.desc[1] = <<>> THEN <<>>
    ELSE extract_text_content(ch.desc[1][1])

\* a lookup that would also want the key '#id' itself in the table;
\* C2_ChangeAssociation fails for it
ChangeResolvesBare(resp, ags) ==
    resp # <<>> /\ Head(resp) = "#" /\ Tail(resp) \in DOMAIN ags /\ resp \in DOMAIN ags

\* line 478: resp and resp.startswith("#") and resp[1:] in agents
ChangeResolves(resp, ags) ==
    resp # <<>> /\ Head(resp) = "#" /\ Tail(resp) \in DOMAIN ags

\* lines 463-488: what one <change> adds
ChangeLines(ch, i, ents, ags) ==
    LET activity_uri == Uri("mei:activity/", ChangeActivityId(ch, i))
        resp == Get(ch.resp, <<>>)
        isodate == Get(ch.isodate, <<>>)
    IN  (IF ChangeText(ch) # <<>>
         THEN << Line(activity_uri, "a", ClassObj("prov:Activity"), ";"),
                 Line(<<>>, "dcterms:description", Lit(escape_ttl_literal(ChangeText(ch))), ".") >>
         ELSE <<>>)
        \o (IF ChangeResolves(resp, ags)
            THEN << Line(activity_uri, "prov:wasAssociatedWith", UriObj(ags[Tail(resp)]), ".") >>
            ELSE <<>>)
        \o (IF isodate # <<>>
            THEN << Line(activity_uri, "prov:endedAtTime", TypedLit(isodate, "xsd:date"), ".") >>
            ELSE <<>>)
        \o << Line(activity_uri, "prov:generated", UriObj(ents["file"]), ".") >>

\* lines 461-488: one iteration of the loop over the changes
ProcessChange(ch) ==
    /\ pc = "changes"
    /\ UNCHANGED callVars
    /\ UNCHANGED runVars
    /\ UNCHANGED valVars
    /\ Step("change", ch, Str(idx + 1), ChangeLines(ch, idx, entities, agents))
    /\ activities' = Put(activities, ChangeActivityId(ch, idx),
                         Uri("mei:activity/", ChangeActivityId(ch, idx)))
    /\ idx' = idx + 1
    /\ UNCHANGED <<pc, file_path, entities, agents, resp_entities,
                   ret, source_uri, nfiles, ndocs, past>>

\* a traversal that would turn to the file description after the revisions;
\* C22_TraversalOrder fails for it
ChangesDoneThenFileDesc ==
    /\ pc = "changes"
    /\ UNCHANGED callVars
    /\ UNCHANGED runVars
    /\ UNCHANGED valVars
    /\ pc' = "fileDesc"
    /\ idx' = 0
    /\ UNCHANGED <<file_path, entities, agents, activities, ttl_lines, resp_entities,
                   ret, source_uri, header, elems, nfiles, ndocs, past>>

\* line 490: the loop over the changes is over
ChangesDone ==
    /\ pc = "changes"
    /\ UNCHANGED callVars
    /\ UNCHANGED runVars
    /\ UNCHANGED valVars
    /\ pc' = "done"
    /\ idx' = 0
    /\ UNCHANGED <<file_path, entities, agents, activities, ttl_lines, resp_entities,
                   ret, source_uri, header, elems, nfiles, ndocs, past>>

\* line 147: generate_prov_ttl returns the lines
Finish ==
    /\ pc = "done"
    /\ UNCHANGED callVars
    /\ UNCHANGED runVars
    /\ UNCHANGED valVars
    /\ ndocs' = ndocs + 1
    /\ past' = past \cup DOMAIN agents
    /\ pc' = "idle"
    /\ UNCHANGED <<file_path, entities, agents, activities, ttl_lines, resp_entities,
                   ret, idx, source_uri, header, elems, nfiles>>

Opt(S) == {<<>>} \cup {<<x>> : x \in S}

Next ==
    \/ \E fp \in FilePaths : StartDoc(fp)
    \/ \E b \in BOOLEAN : FileDesc(b)
    \/ \E b \in BOOLEAN : TitleStmt(b)
    \/ \E t \in Titles : ProcessTitle(t)
    \/ TitlesDone
    \/ TitleRespStmt
    \/ RespStmtsDone
    \/ \E p \in PersNames : ProcessPersName(p)
    \/ PersNamesDone
    \/ \E c \in CorpNames : ProcessCorpName(c)
    \/ CorpNamesDone
    \/ \E b \in BOOLEAN : EditionStmt(b)
    \/ \E e \in Editions : ProcessEdition(e)
    \/ EditionsDone
    \/ \E b \in BOOLEAN : PubStmt(b)
    \/ \E o \in Opt(Publishers) : ProcessPublisher(o)
    \/ \E o \in Opt(Dates) : ProcessPubDate(o)
    \/ \E o \in Opt(PubPlaces) : ProcessPubPlace(o)
    \/ \E o \in Opt(Identifiers) : ProcessIdentifier(o)
    \/ \E b \in BOOLEAN : SourceDesc(b)
    \/ \E b \in BOOLEAN : ProcessSource(b)
    \/ SourcesDone
    \/ \E o \in Opt(BiblLevels) : ProcessAnalytic(o)
    \/ \E o \in Opt(BiblLevels) : ProcessMonogr(o)
    \/ \E o \in Opt(Imprints) : ProcessImprint(o)
    \/ \E b \in BOOLEAN : EncodingDesc(b)
    \/ \E app \in Applications : ProcessApplication(app)
    \/ ApplicationsDone
    \/ \E b \in BOOLEAN : RevisionDesc(b)
    \/ \E ch \in Changes : ProcessChange(ch)
    \/ ChangesDone
    \/ Finish

Spec == Init /\ [][Next]_vars

SpecBatch == InitBatch /\ [][Next]_vars


(***************************************************************************)
(* The helper functions called on their own: the argument is drawn from a  *)
(* bounded set, the call returns the function's value.                    *)
(***************************************************************************)
\* the strings of at most n characters of S
StringsUpTo(S, n) == UNION {[1..k -> S] : k \in 0..n}

InitCall(f, inputs) ==
    /\ InitLocals
    /\ nfiles = 0
    /\ fn = f
    /\ arg \in inputs
    /\ res = <<>>
    /\ NoRun

\* the characters _escape_ttl_literal replaces, and two it leaves alone
EscapeChars == {"\"", "\\", "\t", "\n", "\r", "a", "n"}

InitEscape == InitCall("_escape_ttl_literal", StringsUpTo(EscapeChars, MaxLen))

\* lines 51-63: _escape_ttl_literal(text)
CallEscape ==
    /\ fn = "_escape_ttl_literal"
    /\ res = <<>>
    /\ res' = <<escape_ttl_literal(arg)>>
    /\ UNCHANGED <<fn, arg>>
    /\ UNCHANGED docVars
    /\ UNCHANGED runVars
    /\ UNCHANGED valVars

SpecEscape == InitEscape /\ [][CallEscape]_vars

\* letters of both cases, a digit, whitespace, the hyphen, the underscore,
\* punctuation and the capital dotted I
SlugChars == {"A", "b", "1", " ", "\t", "-", "_", "!", CapitalDottedI}

InitSlug == InitCall("_clean_uri", StringsUpTo(SlugChars, MaxLen))

\* lines 35-42: _clean_uri(text)
CallSlug ==
    /\ fn = "_clean_uri"
    /\ res = <<>>
    /\ res' = <<clean_uri(arg)>>
    /\ UNCHANGED <<fn, arg>>
    /\ UNCHANGED docVars
    /\ UNCHANGED runVars
    /\ UNCHANGED valVars

\* lines 35-42: _clean_uri of what _clean_uri returned
CallSlugAgain ==
    /\ fn = "_clean_uri"
    /\ Len(res) = 1
    /\ res' = Append(res, clean_uri(res[1]))
    /\ UNCHANGED <<fn, arg>>
    /\ UNCHANGED docVars
    /\ UNCHANGED runVars
    /\ UNCHANGED valVars

SpecSlug == InitSlug /\ [][CallSlug \/ CallSlugAgain]_vars

InitUri ==
    InitCall("_generate_uri",
             [base : StringsUpTo({"m", ":", "/"}, MaxLen),
              identifier : StringsUpTo({"A", " ", "!"}, MaxLen)])

\* lines 44-49: _generate_uri(base, identifier)
CallUri ==
    /\ fn = "_generate_uri"
    /\ res = <<>>
    /\ res' = <<generate_uri(arg.base, arg.identifier)>>
    /\ UNCHANGED <<fn, arg>>
    /\ UNCHANGED docVars
    /\ UNCHANGED runVars
    /\ UNCHANGED valVars

SpecUri == InitUri /\ [][CallUri]_vars

(***************************************************************************)
(* parse_provenance.py: _elem_to_dict.  An element is [attrib, text, kids], *)
(* attrib a dictionary, text <<>> for None, kids the children in document  *)
(* order, each [tag, tail, elem].  A value of the result says what it is:  *)
(* a bare string, a dictionary, a list, or the copy of the attributes.     *)
(***************************************************************************)
StrVal(t)   == [kind |-> "str",   val |-> t]
NodeVal(d)  == [kind |-> "node",  val |-> d]
ListVal(l)  == [kind |-> "list",  val |-> l]
AttrsVal(a) == [kind |-> "attrs", val |-> a]

K_attributes == <<"@attributes">>
K_text       == <<"#text">>

\* lines 22-24: tag.rsplit("}", 1)[-1] if "}" in tag else tag
strip_ns(tag) ==
    IF \E i \in DOMAIN tag : tag[i] = "}"
    THEN LET last == CHOOSE i \in DOMAIN tag :
                        tag[i] = "}" /\ \A j \in DOMAIN tag : tag[j] = "}" => j <= i
         IN  SubSeq(tag, last + 1, Len(tag))
    ELSE tag

\* the children of one local tag name, in document order
RECURSIVE WithTag(_, _)
WithTag(children, key) ==
    IF children = <<>> THEN <<>>
    ELSE (IF strip_ns(Head(children).tag) = key THEN <<Head(children).elem>> ELSE <<>>)
         \o WithTag(Tail(children), key)

\* a text that would keep its surrounding whitespace; C12_LeafText fails for it
OwnTextRaw(elem) == elem.text

\* line 55: (elem.text or "").strip()
OwnText(elem) == Strip(elem.text)

\* a value that would stay a list whatever its length; C13_GroupedChildren
\* fails for it
PromoteNever(value) == ListVal(value)

\* line 52: value[0] if len(value) == 1 else value
Promote(value) == IF Len(value) = 1 THEN value[1] ELSE ListVal(value)

\* a text that would be attached only beside children; C14_TextKey fails for it
WithTextOnlyChildren(node, text, children, attrib) ==
    IF text # <<>>
    THEN IF children # <<>>
         THEN NodeVal(Put(node, K_text, StrVal(text)))
         ELSE StrVal(text)
    ELSE NodeVal(node)

\* lines 56-62: the text beside attributes or children, or the bare string
WithText(node, text, children, attrib) ==
    IF text # <<>>
    THEN IF children # <<>> \/ DOMAIN attrib # {}
         THEN NodeVal(Put(node, K_text, StrVal(text)))
         ELSE StrVal(text)
    ELSE NodeVal(node)

\* lines 27-62: _elem_to_dict
RECURSIVE elem_to_dict(_)
elem_to_dict(elem) ==
    LET children == elem.kids
        keys == {strip_ns(children[i].tag) : i \in DOMAIN children}
        grouped(key) == LET of == WithTag(children, key)
                        IN  [i \in DOMAIN of |-> elem_to_dict(of[i])]
        node == [k \in (IF DOMAIN elem.attrib # {} THEN {K_attributes} ELSE {}) \cup keys |->
                    IF k \in keys THEN Promote(grouped(k)) ELSE AttrsVal(elem.attrib)]
    IN  WithText(node, OwnText(elem), children, elem.attrib)

\* the elements given to _elem_to_dict
A_none == [k \in {} |-> <<>>]
A_one  == [k \in {<<"n">>} |-> <<"v">>]

T_space == <<" ">>
T_x     == <<" ", "x", " ">>
T_y     == <<"y">>
T_tail  == <<" ", "t">>

TAG_a   == <<"a">>
TAG_ma  == <<"{", "m", "}", "a">>
TAG_b   == <<"{", "m", "}", "b">>

Leaf(attrib, text) == [attrib |-> attrib, text |-> text, kids |-> <<>>]
Kid(tag, tail, elem) == [tag |-> tag, tail |-> tail, elem |-> elem]

\* children: leaves, and two that have children of their own
KidElems ==
    {Leaf(A_none, <<>>), Leaf(A_none, T_y), Leaf(A_one, <<>>), Leaf(A_one, T_y),
     [attrib |-> A_none, text |-> <<>>,
      kids |-> <<Kid(TAG_a, T_tail, Leaf(A_none, T_y)), Kid(TAG_a, <<>>, Leaf(A_none, T_x))>>]}

Kids == {Kid(tag, tail, e) : tag \in {TAG_a, TAG_ma, TAG_b}, tail \in {<<>>, T_tail}, e \in KidElems}

Elements == [attrib : {A_none, A_one}, text : {<<>>, T_space, T_x},
             kids : StringsUpTo(Kids, MaxKids)]

InitNormalize == InitCall("_elem_to_dict", Elements)

\* lines 27-62: _elem_to_dict(elem)
CallNormalize ==
    /\ fn = "_elem_to_dict"
    /\ res = <<>>
    /\ res' = <<elem_to_dict(arg)>>
    /\ UNCHANGED <<fn, arg>>
    /\ UNCHANGED docVars
    /\ UNCHANGED runVars
    /\ UNCHANGED valVars

SpecNormalize == InitNormalize /\ [][CallNormalize]_vars

(***************************************************************************)
(* _parse_mei_metadata (parse_mei_metadata in parse_provenance.py) after   *)
(* ET.parse: the root is [tag, kids], kids the tags of its children.  A    *)
(* tag is '{namespace}name', or 'name' alone, each part one symbol.        *)
(***************************************************************************)
MEI_NS == "http://www.music-encoding.org/ns/mei"

Tag(ns, name) == IF ns = "" THEN <<name>> ELSE <<"{", ns, "}", name>>

\* root.find("mei:meiHead", MEI_NS): the first child of that qualified name,
\* 0 for None
FindHead(root) ==
    LET I == {i \in DOMAIN root.kids : root.kids[i] = Tag(MEI_NS, "meiHead")}
    IN  IF I = {} THEN 0 ELSE CHOOSE i \in I : \A j \in I : i <= j

\* what the function does: it returns the header, at = 0 for the root and i
\* for the i-th child, or raises
Returned(i)   == [kind |-> "head", at |-> i, msg |-> ""]
Raised(k, m)  == [kind |-> k, at |-> 0, msg |-> m]

\* a function without the test of line 92, which would return None;
\* C18_LocateHeader fails for it
parse_mei_metadata_unchecked(root) ==
    LET local_root == strip_ns(root.tag)
    IN  IF local_root = <<"mei">>
        THEN IF FindHead(root) = 0 THEN [kind |-> "None", at |-> 0, msg |-> ""]
             ELSE Returned(FindHead(root))
        ELSE IF local_root = <<"meiHead">> THEN Returned(0)
        ELSE Raised("ValueError", "The provided file doesn't look like an MEI document.")

\* lines 82-95 (the dash of the second message is written '-')
parse_mei_metadata(root) ==
    LET local_root == strip_ns(root.tag)
    IN  IF local_root = <<"mei">>
        THEN IF FindHead(root) = 0
             THEN Raised("ValueError", "<meiHead> element not found - is the file valid MEI?")
             ELSE Returned(FindHead(root))
        ELSE IF local_root = <<"meiHead">> THEN Returned(0)
        ELSE Raised("ValueError", "The provided file doesn't look like an MEI document.")

RootTags == {Tag(MEI_NS, "mei"), Tag("", "mei"), Tag(MEI_NS, "meiHead"), Tag("", "meiHead"),
             Tag(MEI_NS, "music"), Tag("http://www.tei-c.org/ns/1.0", "TEI")}

ChildTags == {Tag(MEI_NS, "meiHead"), Tag("", "meiHead"), Tag(MEI_NS, "music")}

InitLocate == InitCall("_parse_mei_metadata",
                       [tag : RootTags, kids : StringsUpTo(ChildTags, MaxKids)])

\* lines 79-95: _parse_mei_metadata(path), from the root of the parsed file on
CallLocate ==
    /\ fn = "_parse_mei_metadata"
    /\ res = <<>>
    /\ res' = <<parse_mei_metadata(arg)>>
    /\ UNCHANGED <<fn, arg>>
    /\ UNCHANGED docVars
    /\ UNCHANGED runVars
    /\ UNCHANGED valVars

SpecLocate == InitLocate /\ [][CallLocate]_vars

(***************************************************************************)
(* The batch drivers: parse_provenance_batch.py (metadata) and             *)
(* parse_provenance_prov_batch.py (provenance).  arg is what               *)
(* find_mei_files returns: the files in the order of os.walk, each given   *)
(* by its content; the path of a file is its position in arg.  The         *)
(* single-document scripts run as subprocesses and read the files, which   *)
(* do not change during the run.                                           *)
(***************************************************************************)
MetadataMain == "parse_provenance_batch.main"
ProvMain     == "parse_provenance_prov_batch.main"

\* a file ET.parse rejects, and a file it parses: the root's tag, the tags
\* of the root's children, and the header element
Malformed == [xml |-> "malformed"]
Doc(tag, kids, head) == [xml |-> "tree", tag |-> tag, kids |-> kids, head |-> head]

Node(kids) == [attrib |-> A_none, text |-> <<>>, kids |-> kids]
MeiKid(name, elem) == Kid(Tag(MEI_NS, name), <<>>, elem)

K_fileDesc     == <<"fileDesc">>
K_titleStmt    == <<"titleStmt">>
K_title        == <<"title">>
K_encodingDesc == <<"encodingDesc">>
K_appInfo      == <<"appInfo">>
K_application  == <<"application">>

\* <meiHead><fileDesc><titleStmt><title>T</title></titleStmt></fileDesc></meiHead>
H_title == Node(<<MeiKid("fileDesc",
                 Node(<<MeiKid("titleStmt",
                        Node(<<MeiKid("title", Leaf(A_none, <<"T">>))>>))>>))>>)
\* <meiHead>fileDesc</meiHead>
H_text == Leaf(A_none, K_fileDesc)
\* <meiHead><fileDesc><titleStmt>title</titleStmt></fileDesc></meiHead>
H_stmtText == Node(<<MeiKid("fileDesc",
                    Node(<<MeiKid("titleStmt", Leaf(A_none, K_title))>>))>>)
\* <meiHead><encodingDesc>appInfo</encodingDesc></meiHead>
H_appText == Node(<<MeiKid("encodingDesc", Leaf(A_none, K_appInfo))>>)

F_notMei  == Doc(Tag("", "music"), <<>>, Node(<<>>))
F_noHead  == Doc(Tag(MEI_NS, "mei"), <<Tag(MEI_NS, "music")>>, Node(<<>>))
F_title   == Doc(Tag(MEI_NS, "mei"), <<Tag(MEI_NS, "meiHead")>>, H_title)
F_text    == Doc(Tag(MEI_NS, "meiHead"), <<>>, H_text)
F_stmt    == Doc(Tag(MEI_NS, "mei"), <<Tag(MEI_NS, "meiHead")>>, H_stmtText)
F_app     == Doc(Tag(MEI_NS, "mei"), <<Tag(MEI_NS, "meiHead")>>, H_appText)

Files == {Malformed, F_notMei, F_noHead, F_title, F_text, F_stmt, F_app}

\* parse_provenance.py lines 84-101 run as a script on a file: an exception
\* (ParseError of ET.parse, ValueError of parse_mei_metadata) ends the
\* process with status 1, otherwise the JSON of the header is printed
parse_provenance(file) ==
    IF file.xml = "malformed" THEN [returncode |-> 1]
    ELSE IF parse_mei_metadata(file).kind = "head"
         THEN [returncode |-> 0, stdout |-> elem_to_dict(file.head)]
         ELSE [returncode |-> 1]

\* parse_provenance_prov.py lines 492-512 run as a script on a file: every
\* exception is caught and turned into status 1
parse_provenance_prov(file) ==
    IF file.xml = "malformed" THEN [returncode |-> 1]
    ELSE IF parse_mei_metadata(file).kind = "head"
         THEN [returncode |-> 0]
         ELSE [returncode |-> 1]

\* lines 27-59: extract_metadata_from_file; check=True turns a non-zero
\* status into CalledProcessError
extract_metadata_from_file(path, file) ==
    IF parse_provenance(file).returncode = 0
    THEN [file_path |-> path, success |-> TRUE,
          metadata |-> parse_provenance(file).stdout]
    ELSE [file_path |-> path, success |-> FALSE, error |-> "Script error"]

\* parse_provenance_prov_batch.py lines 26-51: extract_prov_from_file; the
\* text of ttl_output is what the script printed for that file
extract_prov_from_file(path, file) ==
    IF parse_provenance_prov(file).returncode = 0
    THEN [file_path |-> path, success |-> TRUE, ttl_output |-> <<"ttl", path>>]
    ELSE [file_path |-> path, success |-> FALSE, error |-> "Script error"]

\* key in value: a substring of a string, an item of a list, a key of a
\* dictionary
Within(key, s) ==
    \E i \in 1..(Len(s) - Len(key) + 1) : SubSeq(s, i, i + Len(key) - 1) = key

In(key, value) ==
    CASE value.kind = "str"  -> Within(key, value.val)
      [] value.kind = "list" -> \E i \in DOMAIN value.val :
                                    value.val[i].kind = "str" /\ value.val[i].val = key
      [] OTHER               -> key \in DOMAIN value.val

\* lines 130-141: TRUE when value[key] of line 131, 133 or 135 is reached
\* with a value that is no dictionary, which raises TypeError
TitleRaises(metadata) ==
    In(K_fileDesc, metadata) /\
      (metadata.kind # "node" \/
       LET file_desc == metadata.val[K_fileDesc]
       IN  In(K_titleStmt, file_desc) /\
             (file_desc.kind # "node" \/
              LET title_stmt == file_desc.val[K_titleStmt]
              IN  In(K_title, title_stmt) /\ title_stmt.kind # "node"))

\* lines 143-162: the same for lines 144, 146 and 148
ApplicationRaises(metadata) ==
    In(K_encodingDesc, metadata) /\
      (metadata.kind # "node" \/
       LET encoding_desc == metadata.val[K_encodingDesc]
       IN  In(K_appInfo, encoding_desc) /\
             (encoding_desc.kind # "node" \/
              LET app_info == encoding_desc.val[K_appInfo]
              IN  In(K_application, app_info) /\ app_info.kind # "node"))

\* lines 121-162: printing the sample of all_results[:3] raises TypeError
SampleRaises(results, successful) ==
    /\ successful > 0
    /\ \E i \in DOMAIN results :
          /\ i <= 3
          /\ results[i].success
          /\ TitleRaises(results[i].metadata) \/ ApplicationRaises(results[i].metadata)

Returns(value) == [kind |-> "return", val |-> value]
Raises(error)  == [kind |-> error]

\* the positions of the failed results, in order
RECURSIVE FailedOf(_)
FailedOf(results) ==
    IF results = <<>> THEN <<>>
    ELSE FailedOf(SubSeq(results, 1, Len(results) - 1))
         \o (IF results[Len(results)].success THEN <<>>
             ELSE <<results[Len(results)].file_path>>)

\* a directory of at most MaxFiles files, given to one of the two drivers
InitRun ==
    /\ InitLocals
    /\ nfiles = 0
    /\ fn \in {MetadataMain, ProvMain}
    /\ arg \in StringsUpTo(Files, MaxFiles)
    /\ res = <<>>
    /\ rpc = "start"
    /\ InitMain
    /\ InitSchemas

\* lines 63-66 (55-58): no file found
MainNoFiles ==
    /\ rpc = "start"
    /\ arg = <<>>
    /\ rpc' = "done"
    /\ res' = <<Returns(TRUE)>>
    /\ UNCHANGED <<fn, arg, it, all_results, all_ttl_outputs, successful_extractions,
                   failed_extractions, calls, listed>>
    /\ UNCHANGED docVars
    /\ UNCHANGED valVars

\* lines 68-73 (60-65): the locals are set, the loop begins
MainFound ==
    /\ rpc = "start"
    /\ arg # <<>>
    /\ rpc' = "loop"
    /\ UNCHANGED <<it, all_results, all_ttl_outputs, successful_extractions,
                   failed_extractions, calls, listed>>
    /\ UNCHANGED callVars
    /\ UNCHANGED docVars
    /\ UNCHANGED valVars

\* parse_provenance_batch.py lines 75-85: one iteration of the loop
ExtractMetadata ==
    /\ rpc = "loop"
    /\ fn = MetadataMain
    /\ it < Len(arg)
    /\ LET result == extract_metadata_from_file(it + 1, arg[it + 1])
       IN  /\ all_results' = Append(all_results, result)
           /\ calls' = Append(calls, [file_path |-> it + 1, success |-> result.success])
           /\ IF result.success
              THEN /\ successful_extractions' = successful_extractions + 1
                   /\ UNCHANGED failed_extractions
              ELSE /\ failed_extractions' = failed_extractions + 1
                   /\ UNCHANGED successful_extractions
    /\ it' = it + 1
    /\ rpc' = IF it + 1 = Len(arg) THEN "summary" ELSE "loop"
    /\ UNCHANGED <<all_ttl_outputs, listed>>
    /\ UNCHANGED callVars
    /\ UNCHANGED docVars
    /\ UNCHANGED valVars

\* parse_provenance_prov_batch.py lines 67-77: one iteration of the loop
ExtractProv ==
    /\ rpc = "loop"
    /\ fn = ProvMain
    /\ it < Len(arg)
    /\ LET result == extract_prov_from_file(it + 1, arg[it + 1])
       IN  /\ calls' = Append(calls, [file_path |-> it + 1, success |-> result.success])
           /\ IF result.success
              THEN /\ successful_extractions' = successful_extractions + 1
                   /\ all_ttl_outputs' = Append(all_ttl_outputs, result.ttl_output)
                   /\ UNCHANGED failed_extractions
              ELSE /\ failed_extractions' = failed_extractions + 1
                   /\ UNCHANGED <<successful_extractions, all_ttl_outputs>>
    /\ it' = it + 1
    /\ rpc' = IF it + 1 = Len(arg) THEN "summary" ELSE "loop"
    /\ UNCHANGED <<all_results, listed>>
    /\ UNCHANGED callVars
    /\ UNCHANGED docVars
    /\ UNCHANGED valVars

\* parse_provenance_batch.py lines 87-164: the summary, the list of the
\* failed results of all_results, the JSON file, the sample, the return
SummaryMetadata ==
    /\ rpc = "summary"
    /\ fn = MetadataMain
    /\ listed' = IF failed_extractions > 0 THEN FailedOf(all_results) ELSE <<>>
    /\ res' = IF SampleRaises(all_results, successful_extractions)
              THEN <<Raises("TypeError")>>
              ELSE <<Returns(failed_extractions = 0)>>
    /\ rpc' = "done"
    /\ UNCHANGED <<fn, arg, it, all_results, all_ttl_outputs, successful_extractions,
                   failed_extractions, calls>>
    /\ UNCHANGED docVars
    /\ UNCHANGED valVars

\* parse_provenance_prov_batch.py lines 79-106: the summary, the list of
\* the failed files (line 89 calls extract_prov_from_file for every file
\* again and lists the failures of these calls), the combined output, the
\* return
SummaryProv ==
    /\ rpc = "summary"
    /\ fn = ProvMain
    /\ LET again == [i \in DOMAIN arg |-> extract_prov_from_file(i, arg[i])]
       IN  IF failed_extractions > 0
           THEN /\ calls' = calls \o [i \in DOMAIN arg |->
                                [file_path |-> i, success |-> again[i].success]]
                /\ listed' = FailedOf(again)
           ELSE UNCHANGED <<calls, listed>>
    /\ res' = <<Returns(failed_extractions = 0)>>
    /\ rpc' = "done"
    /\ UNCHANGED <<fn, arg, it, all_results, all_ttl_outputs, successful_extractions,
                   failed_extractions>>
    /\ UNCHANGED docVars
    /\ UNCHANGED valVars

NextRun ==
    \/ MainNoFiles
    \/ MainFound
    \/ ExtractMetadata
    \/ ExtractProv
    \/ SummaryMetadata
    \/ SummaryProv

SpecRun == InitRun /\ [][NextRun]_vars

(***************************************************************************)
(* validate_encodings.py: main.  arg is what find_mei_files returns, each  *)
(* file given by its content: not well-formed, or a document with the      *)
(* href of its first xml-model processing instruction (<<>> when there is  *)
(* none) and the schemas it is valid against.  What requests.get and the   *)
(* compilation of the answer give is the network's choice at every fetch.  *)
(***************************************************************************)
ValidateMain == "validate_encodings.main"

U_one == "https://music-encoding.org/schema/5.0/mei-all.rng"
U_two == "https://music-encoding.org/schema/4.0.1/mei-all.rng"

Encoding(href, validFor) == [xml |-> "tree", href |-> href, validFor |-> validFor]

Encodings ==
    {Malformed, Encoding(<<>>, {})}
    \cup {Encoding(<<u>>, v) : u \in {U_one, U_two}, v \in {{}, {U_one}}}

\* requests.get(schema_url) and etree.RelaxNG(etree.parse(...)) of lines
\* 65-71: a RELAX NG schema, a status other than 200, an answer that is not
\* well-formed (XMLSyntaxError), a well-formed answer that is no RELAX NG
\* schema (RelaxNGParseError), no answer (requests.RequestException)
Responses == {"rng", "404", "XMLSyntaxError", "RelaxNGParseError", "RequestException"}

\* the exceptions of a fetch that no except clause of main catches
Uncaught == {"RelaxNGParseError", "RequestException"}

Error(msg, file, url) == [msg |-> msg, file |-> file, url |-> url]

\* etree.RelaxNG(...): the compiled schema of the answer of this URL
RelaxNG(url) == [from |-> url]

\* lines 8-22: validate_mei_file appends one error when the document is not
\* valid against the schema (the file, read and parsed again, is unchanged)
validate_mei_file(path, file, schema, errs) ==
    IF schema.from \in file.validFor THEN errs
    ELSE Append(errs, Error("Validation failed for", path, ""))

\* lines 63 and 71: the key of the cache is the URL
CacheKey(url) == url

\* a directory of at most MaxFiles files given to main; lines 32-33
InitValidate ==
    /\ InitLocals
    /\ nfiles = 0
    /\ fn = ValidateMain
    /\ arg \in StringsUpTo(Encodings, MaxFiles)
    /\ res = <<>>
    /\ rpc = "start"
    /\ InitMain
    /\ InitSchemas

\* lines 34-37: no file found
ValidateNoFiles ==
    /\ rpc = "start"
    /\ fn = ValidateMain
    /\ arg = <<>>
    /\ rpc' = "done"
    /\ res' = <<Returns(TRUE)>>
    /\ UNCHANGED <<fn, arg, it, all_results, all_ttl_outputs, successful_extractions,
                   failed_extractions, calls, listed>>
    /\ UNCHANGED valVars
    /\ UNCHANGED docVars

\* line 39: the loop begins
ValidateFound ==
    /\ rpc = "start"
    /\ fn = ValidateMain
    /\ arg # <<>>
    /\ rpc' = "loop"
    /\ UNCHANGED <<it, all_results, all_ttl_outputs, successful_extractions,
                   failed_extractions, calls, listed>>
    /\ UNCHANGED valVars
    /\ UNCHANGED callVars
    /\ UNCHANGED docVars

\* lines 39-78: one iteration of the loop; response is what the network
\* answers if the schema is fetched
ValidateFile(response) ==
    /\ rpc = "loop"
    /\ fn = ValidateMain
    /\ it < Len(arg)
    /\ LET mei_file == it + 1
           file == arg[mei_file]
           continue == /\ it' = it + 1
                       /\ rpc' = IF it + 1 = Len(arg) THEN "report" ELSE "loop"
                       /\ UNCHANGED callVars
           skip(error) == /\ errors' = Append(errors, error)
                          /\ UNCHANGED <<schemas, validated>>
                          /\ continue
       IN  IF file.xml = "malformed"
           THEN skip(Error("Error parsing", mei_file, "")) /\ UNCHANGED fetched
           ELSE IF file.href = <<>>
           THEN skip(Error("No schema URL found in", mei_file, "")) /\ UNCHANGED fetched
           ELSE LET schema_url == file.href[1]
                    cached == CacheKey(schema_url) \in DOMAIN schemas
                    loaded == IF cached THEN schemas
                              ELSE Put(schemas, CacheKey(schema_url), RelaxNG(schema_url))
                IN  /\ fetched' = IF cached THEN fetched
                                  ELSE Append(fetched, [url |-> schema_url, response |-> response])
                    /\ IF ~cached /\ response \in Uncaught
                       THEN /\ res' = <<Raises(response)>>
                            /\ rpc' = "done"
                            /\ UNCHANGED <<fn, arg, it, schemas, errors, validated>>
                       ELSE IF ~cached /\ response = "404"
                       THEN skip(Error("Error fetching schema from", 0, schema_url))
                       ELSE IF ~cached /\ response = "XMLSyntaxError"
                       THEN skip(Error("Error loading schema from", 0, schema_url))
                       ELSE /\ schemas' = loaded
                            /\ validated' = Append(validated,
                                   [file |-> mei_file, schema |-> loaded[CacheKey(schema_url)]])
                            /\ errors' = validate_mei_file(mei_file, file,
                                             loaded[CacheKey(schema_url)], errors)
                            /\ continue
    /\ UNCHANGED <<all_results, all_ttl_outputs, successful_extractions,
                   failed_extractions, calls, listed>>
    /\ UNCHANGED docVars

\* lines 80-91: the report and the return
ValidateReport ==
    /\ rpc = "report"
    /\ fn = ValidateMain
    /\ res' = <<Returns(errors = <<>>)>>
    /\ rpc' = "done"
    /\ UNCHANGED <<fn, arg, it, all_results, all_ttl_outputs, successful_extractions,
                   failed_extractions, calls, listed>>
    /\ UNCHANGED valVars
    /\ UNCHANGED docVars

NextValidate ==
    \/ ValidateNoFiles
    \/ ValidateFound
    \/ \E response \in Responses : ValidateFile(response)
    \/ ValidateReport

SpecValidate == InitValidate /\ [][NextValidate]_vars

(***************************************************************************)
(* Properties.  They are stated over the log of handled elements: for the  *)
(* i-th entry, tab and acts are the tables its handler found, out the      *)
(* lines it added, and AgentsAfter(i), ActivitiesAfter(i) the tables it    *)
(* left (no step between two logged ones touches a table).                 *)
(***************************************************************************)
AgentsAfter(i) == IF i = Len(header) THEN agents ELSE header[i + 1].tab

ActivitiesAfter(i) == IF i = Len(header) THEN activities ELSE header[i + 1].acts

WithPred(lines, p) == {j \in DOMAIN lines : lines[j].pred = p}

\* how many of the first i entries are of this kind
CountKind(kind, i) == Cardinality({j \in 1..i : header[j].kind = kind})

\* resp has the form '#id'
IsFragment(attr) == attr # <<>> /\ attr[1] # <<>> /\ Head(attr[1]) = "#"

\* C1: an edition with non-empty text and resp '#id' always gets its
\* description, edition-number and work->edition statements, and gets the
\* edition->agent creator link exactly when id is a key of the agents table
\* at the moment the edition is handled (so not on a forward reference).
C1_EditionCreatorLink ==
    \A i \in DOMAIN header :
        LET h == header[i] IN
        (h.kind = "edition" /\ extract_text_content(h.el.content) # <<>>
                            /\ IsFragment(h.el.resp)) =>
            LET id == Tail(h.el.resp[1])
                links == WithPred(h.out, "dcterms:creator")
            IN  /\ Len(h.out) >= 4
                /\ h.out[1] = Line(entities["edition"], "a", ClassObj("bibo:Document"), ";")
                /\ h.out[2].pred = "dcterms:description"
                /\ h.out[2].obj.val = escape_ttl_literal(extract_text_content(h.el.content))
                /\ h.out[3].pred = "dcterms:edition"
                /\ h.out[3].obj.val = Get(h.el.n, S_one)
                /\ h.out[4] = Line(entities["work"], "bibo:edition",
                                   UriObj(entities["edition"]), ".")
                /\ (links # {}) <=> (id \in DOMAIN h.tab)
                /\ \A j \in links : h.out[j] = Line(entities["edition"], "dcterms:creator",
                                                    UriObj(h.tab[id]), ".")

\* C1 witness: a forward reference; the edition was handled without a link
\* and the agent it names was registered later in the traversal
C1_ForwardReference ==
    \E i \in DOMAIN header :
        /\ header[i].kind = "edition"
        /\ header[i].out # <<>>
        /\ IsFragment(header[i].el.resp)
        /\ WithPred(header[i].out, "dcterms:creator") = {}
        /\ Tail(header[i].el.resp[1]) \in DOMAIN agents

\* C2: a change gets the activity->agent wasAssociatedWith link exactly when
\* its resp is '#id' with id a key of the agents table populated so far; the
\* generated-file link is there in every case.
C2_ChangeAssociation ==
    \A i \in DOMAIN header :
        LET h == header[i] IN
        h.kind = "change" =>
            LET links == WithPred(h.out, "prov:wasAssociatedWith")
                resolves == IsFragment(h.el.resp) /\ Tail(h.el.resp[1]) \in DOMAIN h.tab
                last == h.out[Len(h.out)]
            IN  /\ (links # {}) <=> resolves
                /\ \A j \in links : h.out[j].obj = UriObj(h.tab[Tail(h.el.resp[1])])
                /\ Cardinality(links) <= 1
                /\ h.out # <<>>
                /\ last.pred = "prov:generated"
                /\ last.obj = UriObj(entities["file"])
                /\ Cardinality(WithPred(h.out, "prov:generated")) = 1

\* C2 witness: both cases in one document; a change whose '#id' resolves
\* against an agent registered before and is linked to it
C2_ChangeLinked ==
    \E i \in DOMAIN header :
        /\ header[i].kind = "change"
        /\ IsFragment(header[i].el.resp)
        /\ header[i].tab # EmptyDict
        /\ WithPred(header[i].out, "prov:wasAssociatedWith") # {}

\* C3 as stated: during one pass no key of the agents or activities table is
\* deleted and no mapping is ever replaced by a different URI (first writer
\* wins).
C3_FirstWriterWins ==
    \A i \in DOMAIN header :
        /\ \A k \in DOMAIN header[i].tab :
              k \in DOMAIN AgentsAfter(i) /\ AgentsAfter(i)[k] = header[i].tab[k]
        /\ \A k \in DOMAIN header[i].acts :
              k \in DOMAIN ActivitiesAfter(i) /\ ActivitiesAfter(i)[k] = header[i].acts[k]

\* the local id and URI an entry registers in the agents table, if any
Registers(h) ==
    IF h.kind = "persName"
    THEN {<<PersAgentId(h.el), Uri("mei:agent/", PersAgentId(h.el))>>}
    ELSE IF h.kind = "corpName"
    THEN {<<CorpId(h.el), Uri("mei:organization/", CorpId(h.el))>>}
    ELSE IF h.kind = "publisher" /\ PublisherText(h.el) # <<>>
    THEN {<<PublisherId(h.el), Uri("mei:organization/", PublisherId(h.el))>>}
    ELSE {}

\* C3 amended: no key is ever deleted and the activities table never changes
\* an existing mapping; in the agents table the mapping of a local id changes
\* only when a later entry yields the same local id, and then that entry's
\* URI replaces the earlier one (last writer wins).
C3_InsertionLastWriterWins ==
    \A i \in DOMAIN header :
        /\ DOMAIN header[i].tab \subseteq DOMAIN AgentsAfter(i)
        /\ \A k \in DOMAIN header[i].acts :
              k \in DOMAIN ActivitiesAfter(i) /\ ActivitiesAfter(i)[k] = header[i].acts[k]
        /\ \A k \in DOMAIN header[i].tab :
              AgentsAfter(i)[k] # header[i].tab[k] => \E r \in Registers(header[i]) : r[1] = k
        /\ \A r \in Registers(header[i]) :
              r[1] \in DOMAIN AgentsAfter(i) /\ AgentsAfter(i)[r[1]] = r[2]

\* C3 witness: an entry found its local id already mapped, to another URI
C3_Overwritten ==
    \E i \in DOMAIN header : \E r \in Registers(header[i]) :
        r[1] \in DOMAIN header[i].tab /\ header[i].tab[r[1]] # r[2]

\* the agents table that the registrations of a log build from nothing
RECURSIVE AgentsOf(_)
AgentsOf(log) ==
    IF log = <<>> THEN EmptyDict
    ELSE LET before == AgentsOf(SubSeq(log, 1, Len(log) - 1))
             regs == Registers(log[Len(log)])
         IN  [k \in DOMAIN before \cup {r[1] : r \in regs} |->
                 IF \E r \in regs : r[1] = k
                 THEN (CHOOSE r \in regs : r[1] = k)[2]
                 ELSE before[k]]

\* the local ids of the activities that the entries of a log register
ActivityIdsOf(log) ==
    {S_encoding \o Get(log[i].el.id, S_app \o log[i].ctx) :
        i \in {j \in DOMAIN log : log[j].kind = "application"}}
    \cup {S_revision \o Get(log[i].el.n, S_change \o log[i].ctx) :
        i \in {j \in DOMAIN log : log[j].kind = "change"}}

\* the lines that the entries of a log added, in order
RECURSIVE OutOf(_)
OutOf(log) ==
    IF log = <<>> THEN <<>>
    ELSE OutOf(SubSeq(log, 1, Len(log) - 1)) \o log[Len(log)].out

C5_SynthesizedPerson ==
    \A i \in DOMAIN header :
        LET h == header[i] IN
        (h.kind = "persName" /\ h.el.id = <<>> /\ h.el.fore # <<>> /\ h.el.fam # <<>>) =>
            LET id == S_agent \o clean_uri(h.el.fore[1]) \o <<"_">> \o clean_uri(h.el.fam[1])
                uri == <<"mei:agent/">> \o id
            IN  /\ id \in DOMAIN AgentsAfter(i)
                /\ AgentsAfter(i)[id] = uri
                /\ Len(h.out) = 5
                /\ h.out[1] = Line(uri, "a", ClassObj("foaf:Person"), ";")
                /\ h.out[2].pred = "foaf:givenName"
                /\ h.out[2].obj = Lit(escape_ttl_literal(h.el.fore[1]))
                /\ h.out[3].pred = "foaf:familyName"
                /\ h.out[3].obj = Lit(escape_ttl_literal(h.el.fam[1]))
                /\ h.out[4] = Line(h.ctx, "dcterms:creator", UriObj(uri), ".")
                /\ h.out[5] = Line(uri, "prov:hadRole",
                                   Lit(IF h.el.role = <<>> THEN S_contributor
                                       ELSE h.el.role[1]), ".")

\* C5 witness: the scenario's shape; names "Jo" and "B c" give agent_jo_b_c
C5_PersonRegistered ==
    \E i \in DOMAIN header :
        /\ header[i].kind = "persName"
        /\ header[i].el.id = <<>>
        /\ header[i].out # <<>>
        /\ <<"a","g","e","n","t","_","j","o","_","b","_","c">> \in DOMAIN AgentsAfter(i)

\* C6 as stated: a person entry without xml:id that lacks foreName or
\* famName is skipped entirely; it adds no line and leaves the agents table
\* as it found it (in particular no entry under the empty local id).
C6_NamelessSkipped ==
    \A i \in DOMAIN header :
        LET h == header[i] IN
        (h.kind = "persName" /\ h.el.id = <<>> /\ (h.el.fore = <<>> \/ h.el.fam = <<>>)) =>
            /\ h.out = <<>>
            /\ AgentsAfter(i) = h.tab
            /\ <<>> \notin DOMAIN AgentsAfter(i) \ DOMAIN h.tab

\* the local id and the URIs that C7 expects for the application at entry i
AppLocalId(i) ==
    IF header[i].el.id # <<>> THEN header[i].el.id[1]
    ELSE S_app \o Str(CountKind("application", i))

AppAgentUri(i) == <<"mei:software/">> \o AppLocalId(i)

AppActivityUri(i) == <<"mei:activity/">> \o S_encoding \o AppLocalId(i)

\* the timestamp statements that a block of lines makes about a subject
Timestamps(lines, subject) ==
    {<<lines[j].pred, lines[j].obj>> :
        j \in {n \in DOMAIN lines :
                 /\ lines[n].subj = subject
                 /\ lines[n].pred \in {"prov:startedAtTime", "prov:endedAtTime"}}}

\* C7: the local id of an application is its xml:id, else app_<k> with k its
\* 1-based position in the application list; applications without xml:id
\* get pairwise distinct agent and activity URIs; the paired activity
\* encoding_<local id> is registered, is associated with the agent, used the
\* work, generated the file, and has the agent's start and end timestamps.
C7_ApplicationIds ==
    /\ \A i \in DOMAIN header :
          LET h == header[i] IN
          h.kind = "application" =>
              /\ h.out[1] = Line(AppAgentUri(i), "a", ClassObj("prov:SoftwareAgent"), ".")
              /\ S_encoding \o AppLocalId(i) \in DOMAIN ActivitiesAfter(i)
              /\ ActivitiesAfter(i)[S_encoding \o AppLocalId(i)] = AppActivityUri(i)
              /\ \E j \in DOMAIN h.out :
                    /\ j + 3 <= Len(h.out)
                    /\ h.out[j] = Line(AppActivityUri(i), "a", ClassObj("prov:Activity"), ";")
                    /\ h.out[j + 1] = Line(<<>>, "prov:wasAssociatedWith",
                                           UriObj(AppAgentUri(i)), ";")
                    /\ h.out[j + 2] = Line(<<>>, "prov:used", UriObj(entities["work"]), ";")
                    /\ h.out[j + 3] = Line(<<>>, "prov:generated",
                                           UriObj(entities["file"]), ".")
              /\ Timestamps(h.out, AppActivityUri(i)) = Timestamps(h.out, AppAgentUri(i))
              /\ (h.el.startdate # <<>>) =>
                    <<"prov:startedAtTime", TypedLit(h.el.startdate[1], "xsd:dateTime")>>
                        \in Timestamps(h.out, AppAgentUri(i))
              /\ (h.el.enddate # <<>>) =>
                    <<"prov:endedAtTime", TypedLit(h.el.enddate[1], "xsd:dateTime")>>
                        \in Timestamps(h.out, AppAgentUri(i))
    /\ \A i1, i2 \in DOMAIN header :
          (/\ i1 < i2
           /\ header[i1].kind = "application" /\ header[i1].el.id = <<>>
           /\ header[i2].kind = "application" /\ header[i2].el.id = <<>>) =>
              /\ header[i1].out[1].subj # header[i2].out[1].subj
              /\ AppActivityUri(i1) # AppActivityUri(i2)
              /\ \E j \in DOMAIN header[i2].out :
                    /\ header[i2].out[j].obj = ClassObj("prov:Activity")
                    /\ \A n \in DOMAIN header[i1].out :
                          header[i1].out[n].subj # header[i2].out[j].subj

\* C7 witness: the scenario; two applications without xml:id, app_1 and app_2
C7_TwoApplications ==
    /\ Len(header) = 2
    /\ header[1].kind = "application" /\ header[1].el.id = <<>>
    /\ header[2].kind = "application" /\ header[2].el.id = <<>>
    /\ header[2].el.startdate # <<>>
    /\ DOMAIN activities = {S_encoding \o S_app \o <<"1">>, S_encoding \o S_app \o <<"2">>}

\* the subject C8 expects for the links of the names at entry i: the work
\* until the first source is met, from then on the source met last
ExpectedTarget(i) ==
    IF CountKind("source", i) = 0 THEN entities["work"]
    ELSE <<"mei:source/">> \o S_source \o Str(CountKind("source", i))

\* C8: the k-th source gets the entity source_k, and the creator and
\* contributor links of the names in a responsibility statement nested in
\* that source have source_k as subject; those of the title statement have
\* the work.
C8_SourceSubjects ==
    \A i \in DOMAIN header :
        LET h == header[i] IN
        /\ h.kind = "source" =>
              /\ h.ctx = <<"mei:source/">> \o S_source \o Str(CountKind("source", i))
              /\ h.out[1] = Line(h.ctx, "a", ClassObj("bibo:Document"), ".")
              /\ h.out[2] = Line(entities["work"], "dcterms:source", UriObj(h.ctx), ".")
        /\ h.kind \in {"analytic", "monogr"} =>
              \A j \in DOMAIN h.out : h.out[j].subj = ExpectedTarget(i)
        /\ h.kind \in {"persName", "corpName"} =>
              /\ \A j \in WithPred(h.out, "dcterms:creator")
                          \cup WithPred(h.out, "dcterms:contributor") :
                    h.out[j].subj = ExpectedTarget(i)
              /\ (h.out # <<>>) =>
                    WithPred(h.out, IF h.kind = "persName" THEN "dcterms:creator"
                                    ELSE "dcterms:contributor") # {}

\* C8 witness: a named person in a responsibility statement under the
\* second source, linked from source_2
C8_PersonUnderSecondSource ==
    \E i \in DOMAIN header :
        /\ header[i].kind = "persName"
        /\ CountKind("source", i) = 2
        /\ \E j \in WithPred(header[i].out, "dcterms:creator") :
              header[i].out[j].subj = <<"mei:source/">> \o S_source \o <<"2">>

\* C9: a title whose extracted text is non-empty adds exactly one title
\* statement on the work, with that text as its (escaped) literal and the
\* type attribute, 'main' when absent, as its tag; a title whose extracted
\* text is empty adds nothing.
C9_TitleStatement ==
    \A i \in DOMAIN header :
        LET h == header[i]
            title_text == extract_text_content(h.el.content)
        IN  h.kind = "title" =>
              IF title_text # <<>>
              THEN /\ Len(h.out) = 1
                   /\ h.out[1].subj = entities["work"]
                   /\ h.out[1].pred = "dcterms:title"
                   /\ h.out[1].obj.kind = "lang"
                   /\ h.out[1].obj.val = escape_ttl_literal(title_text)
                   /\ h.out[1].obj.tag = (IF h.el.type = <<>> THEN S_main ELSE h.el.type[1])
              ELSE h.out = <<>>

\* C9 witness: both cases in one title statement; a title with text and a
\* type of its own, and an empty title that added nothing
C9_TitleAndEmptyTitle ==
    \E i, j \in DOMAIN header :
        /\ header[i].kind = "title" /\ header[i].out # <<>> /\ header[i].el.type # <<>>
        /\ header[j].kind = "title" /\ header[j].out = <<>>

\* a literal in which every double quote and every backslash is escaped
RECURSIVE WellEscaped(_)
WellEscaped(v) ==
    IF v = <<>> THEN TRUE
    ELSE IF Head(v) = "\"" THEN FALSE
    ELSE IF Head(v) = "\\"
         THEN /\ Len(v) >= 2
              /\ v[2] \in {"\\", "\"", "n", "r", "t"}
              /\ WellEscaped(Tail(Tail(v)))
    ELSE WellEscaped(Tail(v))

\* C10 as stated: whatever its origin, no literal of the output contains an
\* unescaped double quote or backslash.
C10_LiteralsEscaped ==
    \A j \in DOMAIN ttl_lines :
        IsLiteral(ttl_lines[j].obj) => WellEscaped(ttl_lines[j].obj.val)

\* the length of the run of backslashes that ends just before position j
RECURSIVE BackslashRun(_, _)
BackslashRun(v, j) ==
    IF j > 1 /\ v[j - 1] = "\\" THEN 1 + BackslashRun(v, j - 1) ELSE 0

\* C11: for every string over double quotes, backslashes, tabs, newlines,
\* carriage returns and ordinary characters the output of _escape_ttl_literal
\* has every backslash in a two-character escape (\\, \", \n, \r, \t), every
\* double quote after an odd-length run of backslashes, and no raw newline,
\* carriage return or tab.
C11_EscapeComplete ==
    res # <<>> =>
        /\ WellEscaped(res[1])
        /\ \A j \in DOMAIN res[1] :
              /\ res[1][j] = "\"" => BackslashRun(res[1], j) % 2 = 1
              /\ res[1][j] \notin {"\n", "\r", "\t"}

\* C11 witness: an argument that mixes a backslash and a double quote
C11_MixedEscaped ==
    /\ res # <<>>
    /\ arg = <<"\\", "\"", "n">>
    /\ res[1] = <<"\\", "\\", "\\", "\"", "n">>

\* whether a value of the result is, or holds somewhere, the empty string
RECURSIVE HoldsEmptyString(_)
HoldsEmptyString(v) ==
    IF v.kind = "str" THEN v.val = <<>>
    ELSE IF v.kind \in {"node", "list"}
         THEN \E k \in DOMAIN v.val : HoldsEmptyString(v.val[k])
    ELSE FALSE

\* C12: for an element without attributes and children _elem_to_dict returns
\* the empty dictionary when the trimmed text is empty and the trimmed text
\* as a bare string otherwise; an empty string is never returned.
C12_LeafText ==
    res # <<>> =>
        /\ ~HoldsEmptyString(res[1])
        /\ (arg.kids = <<>> /\ DOMAIN arg.attrib = {}) =>
              IF Strip(arg.text) = <<>>
              THEN res[1].kind = "node" /\ DOMAIN res[1].val = {}
              ELSE res[1].kind = "str" /\ res[1].val = Strip(arg.text)
                   /\ res[1].val # <<>>
                   /\ ~IsSpace(Head(res[1].val)) /\ ~IsSpace(res[1].val[Len(res[1].val)])

\* C12 witness: a leaf whose text is one blank gives the empty dictionary
C12_BlankLeaf ==
    /\ arg = Leaf(A_none, T_space)
    /\ res # <<>>
    /\ res[1].kind = "node"
    /\ DOMAIN res[1].val = {}

\* the positions of the children with a local tag name, and the n-th of them
TagPositions(elem, key) == {i \in DOMAIN elem.kids : strip_ns(elem.kids[i].tag) = key}

NthOf(I, n) == CHOOSE i \in I : Cardinality({j \in I : j < i}) = n - 1

\* C13: a tag that occurs n >= 2 times among the children is stored as a
\* list of exactly n values, the i-th the conversion of the i-th such child
\* in document order; a tag that occurs once is stored as the converted
\* value itself, not as a list of one.
C13_GroupedChildren ==
    (res # <<>> /\ arg.kids # <<>>) =>
        /\ res[1].kind = "node"
        /\ \A i \in DOMAIN arg.kids :
              LET key == strip_ns(arg.kids[i].tag)
                  I == TagPositions(arg, key)
                  n == Cardinality(I)
              IN  /\ key \in DOMAIN res[1].val
                  /\ IF n >= 2
                     THEN /\ res[1].val[key].kind = "list"
                          /\ Len(res[1].val[key].val) = n
                          /\ \A m \in 1..n :
                                res[1].val[key].val[m]
                                   = elem_to_dict(arg.kids[NthOf(I, m)].elem)
                     ELSE /\ res[1].val[key].kind # "list"
                          /\ res[1].val[key] = elem_to_dict(arg.kids[i].elem)
        /\ DOMAIN res[1].val \ {K_attributes, K_text}
              = {strip_ns(arg.kids[i].tag) : i \in DOMAIN arg.kids}

\* C13 witness: two children of the local name a, a bare string and an
\* attribute-bearing one, kept in this order, beside a single b
C13_TwoOfOneTag ==
    /\ res # <<>>
    /\ Len(arg.kids) = 2
    /\ arg.kids[1].tag = TAG_a /\ arg.kids[1].elem = Leaf(A_none, T_y)
    /\ arg.kids[2].tag = TAG_ma /\ arg.kids[2].elem = Leaf(A_one, <<>>)
    /\ res[1].val[TAG_a].kind = "list"
    /\ res[1].val[TAG_a].val[1].kind = "str"
    /\ res[1].val[TAG_a].val[2].kind = "node"

\* whether a text appears in a value of the result
RECURSIVE Mentions(_, _)
Mentions(v, t) ==
    IF v.kind = "str" THEN v.val = t
    ELSE IF v.kind = "attrs" THEN \E k \in DOMAIN v.val : v.val[k] = t
    ELSE \E k \in DOMAIN v.val : Mentions(v.val[k], t)

\* C14: '#text' is attached exactly when the element's own text is non-empty
\* after trimming and the element has an attribute or a child; its value is
\* that trimmed text; the tail text after a child appears nowhere.
C14_TextKey ==
    res # <<>> =>
        LET attached == res[1].kind = "node" /\ K_text \in DOMAIN res[1].val IN
        /\ attached <=> (Strip(arg.text) # <<>>
                           /\ (DOMAIN arg.attrib # {} \/ arg.kids # <<>>))
        /\ attached => (res[1].val[K_text].kind = "str"
                          /\ res[1].val[K_text].val = Strip(arg.text))
        /\ ~Mentions(res[1], T_tail)
        /\ ~Mentions(res[1], Strip(T_tail))

\* C14 witness: text beside an attribute and a child that has a tail
C14_TextBesideChild ==
    /\ arg = [attrib |-> A_one, text |-> T_x,
              kids |-> <<Kid(TAG_b, T_tail, Leaf(A_none, T_y))>>]
    /\ res # <<>>
    /\ res[1].val[K_text] = StrVal(<<"x">>)

\* C15 as stated: _clean_uri is idempotent; applied to its own result it
\* returns that result.
C15_SlugIdempotent ==
    (fn = "_clean_uri" /\ Len(res) = 2) => res[2] = res[1]

\* the slug read off the text in one pass: a kept character is written
\* lower-cased, after one underscore when whitespace separates it from the
\* kept character before it; whitespace before the first and after the last
\* kept character, and every other character, leave nothing
RECURSIVE SlugScan(_, _, _, _)
SlugScan(s, kept, started, pending) ==
    IF s = <<>> THEN <<>>
    ELSE IF IsSpace(Head(s)) THEN SlugScan(Tail(s), kept, started, started)
    ELSE IF Head(s) \in kept
         THEN (IF pending THEN <<"_">> ELSE <<>>) \o Lower(<<Head(s)>>)
              \o SlugScan(Tail(s), kept, TRUE, FALSE)
    ELSE SlugScan(Tail(s), kept, started, pending)

LettersDigitsHyphen ==
    Range(LowerLetters) \cup Range(UpperLetters) \cup Range(Digits)
        \cup {CapitalDottedI, "-"}

\* C16 as stated: only letters, digits, whitespace and the hyphen survive
\* (an underscore or a punctuation character of the input does not), each
\* maximal run of whitespace becomes one underscore, leading and trailing
\* whitespace leaves no underscore, the result is lower-cased, and the empty
\* input gives the empty output.
C16_SlugDropsUnderscore ==
    (fn = "_clean_uri" /\ res # <<>>) =>
        res[1] = SlugScan(arg, LettersDigitsHyphen, FALSE, FALSE)

\* C16 amended: as stated, but the underscore is a kept character too: an
\* underscore of the input survives, punctuation does not.
C16_SlugKeepsUnderscore ==
    (fn = "_clean_uri" /\ res # <<>>) =>
        /\ res[1] = SlugScan(arg, LettersDigitsHyphen \cup {"_"}, FALSE, FALSE)
        /\ arg = <<>> => res[1] = <<>>
        /\ \A j \in DOMAIN res[1] :
              res[1][j] \notin Range(UpperLetters) \cup {"!", " ", "\t", CapitalDottedI}

\* C16 witness: the underscore of the input is kept beside the one written
\* for the blank, and the letter is lower-cased
C16_UnderscoreKept ==
    /\ fn = "_clean_uri"
    /\ arg = <<"_", " ", "A">>
    /\ res # <<>>
    /\ res[1] = <<"_", "_", "a">>

\* the base without its trailing slashes
BaseStem(base) ==
    LET I == {i \in DOMAIN base : base[i] # "/"}
    IN  IF I = {} THEN <<>>
        ELSE SubSeq(base, 1, CHOOSE i \in I : \A j \in I : j <= i)

\* C17: _generate_uri returns the base unchanged, trailing slash included,
\* when the identifier is empty; otherwise the base without trailing slash,
\* then '/', then the slug of the identifier.
C17_GenerateUri ==
    (fn = "_generate_uri" /\ res # <<>>) =>
        IF arg.identifier = <<>>
        THEN res[1] = arg.base
        ELSE /\ res[1] = BaseStem(arg.base) \o <<"/">> \o clean_uri(arg.identifier)
             /\ Len(res[1]) > Len(clean_uri(arg.identifier))
             /\ res[1][Len(res[1]) - Len(clean_uri(arg.identifier))] = "/"
             /\ Len(BaseStem(arg.base)) > 0 => BaseStem(arg.base)[Len(BaseStem(arg.base))] # "/"

\* C17 witness: a base that ends in a slash, with an identifier
C17_SlashStripped ==
    /\ fn = "_generate_uri"
    /\ arg = [base |-> <<"m", ":", "/">>, identifier |-> <<"A", " ", "A">>]
    /\ res # <<>>
    /\ res[1] = <<"m", ":", "/", "a", "_", "a">>

\* C18: with a root 'mei' that has a 'meiHead' child the function returns
\* that child (the first one), with a root 'meiHead' the root itself; in
\* every other case it raises an error of one kind, ValueError, with one
\* message for a root of another name and another for a root 'mei' without
\* header child; it never returns None.
C18_LocateHeader ==
    (fn = "_parse_mei_metadata" /\ res # <<>>) =>
        LET r == res[1]
            local_root == strip_ns(arg.tag)
            heads == {i \in DOMAIN arg.kids : arg.kids[i] = Tag(MEI_NS, "meiHead")}
        IN  /\ r.kind \in {"head", "ValueError"}
            /\ (local_root = <<"mei">> /\ heads # {}) =>
                  (r.kind = "head" /\ r.at \in heads /\ \A j \in heads : r.at <= j)
            /\ local_root = <<"meiHead">> => (r.kind = "head" /\ r.at = 0)
            /\ (local_root = <<"mei">> /\ heads = {}) =>
                  (r.kind = "ValueError"
                     /\ r.msg = "<meiHead> element not found - is the file valid MEI?")
            /\ local_root \notin {<<"mei">>, <<"meiHead">>} =>
                  (r.kind = "ValueError"
                     /\ r.msg = "The provided file doesn't look like an MEI document.")
            /\ r.kind = "head" =>
                  (IF r.at = 0 THEN local_root = <<"meiHead">>
                   ELSE strip_ns(arg.kids[r.at]) = <<"meiHead">>)

\* C18 witness: a root 'mei' whose only 'meiHead' child is in no namespace
\* has no header child; the error is the one of the missing header
C18_HeaderAbsent ==
    /\ fn = "_parse_mei_metadata"
    /\ arg = [tag |-> Tag(MEI_NS, "mei"), kids |-> <<Tag(MEI_NS, "music"), Tag("", "meiHead")>>]
    /\ res # <<>>
    /\ res[1].kind = "ValueError"

\* C19: a sub-mapping whose subtree is absent is a no-op: a step of a
\* conversion that reads no data-carrying element adds no line and leaves
\* the agents and activities tables as they are; so a header in which
\* nothing was found, in particular one with none of fileDesc, encodingDesc
\* and revisionDesc, gives the preamble with the file entity and nothing else.
C19_AbsentIsNoOp ==
    /\ [][(pc # "idle" /\ header' = header)
            => UNCHANGED <<ttl_lines, agents, activities>>]_vars
    /\ []((pc = "done" /\ header = <<>>) =>
            /\ ttl_lines = Preamble(entities["file"], file_path)
            /\ agents = EmptyDict
            /\ activities = EmptyDict)

\* C19 witness: a conversion is over for a header in which nothing was found
C19_EmptyHeaderDone ==
    /\ pc = "idle"
    /\ ndocs = 1
    /\ header = <<>>
    /\ Len(ttl_lines) = 12
    /\ ttl_lines[9].pred = "a"
    /\ agents = EmptyDict

(***************************************************************************)
(* C20: in a batch run a document whose conversion fails does not abort    *)
(* the batch: every discovered file after it is still processed, each      *)
(* discovered file gets exactly one success-or-failure result, the         *)
(* successful and failed counts add up to the number of discovered files,  *)
(* and the run reports overall success if and only if no file failed.      *)
(***************************************************************************)
\* the conversion of a file fails: parse error or structure error
ConversionFails(file) ==
    file.xml = "malformed" \/ parse_mei_metadata(file).kind # "head"

\* the loop has given each file it has passed one result, in the order of
\* discovery, whatever the results before it were, and it passes every file
EveryFileProcessed ==
    /\ rpc \in {"loop", "summary", "done"} =>
          /\ it <= Len(calls)
          /\ \A i \in 1..it :
                /\ calls[i].file_path = i
                /\ calls[i].success = ~ConversionFails(arg[i])
          /\ fn = MetadataMain =>
                /\ Len(all_results) = it
                /\ \A i \in 1..it :
                      /\ all_results[i].file_path = i
                      /\ all_results[i].success = ~ConversionFails(arg[i])
    /\ rpc \in {"summary", "done"} => it = Len(arg)

\* the counters count the passed files by their results
CountsAddUp ==
    /\ rpc \in {"loop", "summary", "done"} =>
          /\ successful_extractions = Cardinality({i \in 1..it : ~ConversionFails(arg[i])})
          /\ failed_extractions = Cardinality({i \in 1..it : ConversionFails(arg[i])})
    /\ rpc \in {"summary", "done"} =>
          successful_extractions + failed_extractions = Len(arg)

\* main returns True exactly when no conversion failed
SuccessIffNoFailure ==
    rpc = "done" =>
        /\ Len(res) = 1
        /\ (res[1].kind = "return" /\ res[1].val = TRUE)
              <=> (\A i \in DOMAIN arg : ~ConversionFails(arg[i]))

\* C20: a failed conversion does not abort the batch, every discovered file
\* gets exactly one result, the two counts add up to the number of files,
\* and the run reports success if and only if no file failed
C20_BatchIsolatesFailures ==
    /\ EveryFileProcessed
    /\ CountsAddUp
    /\ SuccessIffNoFailure

(***************************************************************************)
(* C21: every change of the revision description gets the type statement   *)
(* of its activity 'revision_<local id>' (local id the n attribute or      *)
(* 'change_<1-based index>') and an entry in the activities table, with    *)
(* or without a descriptive paragraph; only the description literal        *)
(* depends on the paragraph.                                               *)
(***************************************************************************)
\* the lines that declare subject to be of this class
TypedAs(lines, subject, class) ==
    {j \in DOMAIN lines : /\ lines[j].subj = subject
                          /\ lines[j].pred = "a"
                          /\ lines[j].obj = ClassObj(class)}

\* C21: for every change the activity is declared a prov:Activity and is
\* registered under 'revision_<local id>', whether or not it has a paragraph;
\* the description literal is there exactly when the paragraph has text
C21_ChangeActivity ==
    \A i \in DOMAIN header :
        LET h == header[i] IN
        h.kind = "change" =>
            LET id == S_revision \o Get(h.el.n, S_change \o h.ctx)
                activity_uri == Uri("mei:activity/", id)
            IN  /\ Cardinality(TypedAs(h.out, activity_uri, "prov:Activity")) = 1
                /\ id \in DOMAIN ActivitiesAfter(i)
                /\ ActivitiesAfter(i)[id] = activity_uri
                /\ (WithPred(h.out, "dcterms:description") # {})
                      <=> (ChangeText(h.el) # <<>>)

(***************************************************************************)
(* C22: the order in which the header is traversed is fixed: title         *)
(* statement, edition statement, publication statement, source             *)
(* bibliography, applications, revisions.  So a change's '#id' resolves    *)
(* against every agent the file description registers, an edition's only   *)
(* against the agents of the title statement's responsibility statements.  *)
(***************************************************************************)
\* the part of the traversal a handled element belongs to
Stage(h) ==
    CASE h.kind = "title" -> 1
      [] h.kind \in {"persName", "corpName"} ->
            IF h.ctx = entities["work"] THEN 1 ELSE 4
      [] h.kind = "edition" -> 2
      [] h.kind \in {"publisher", "date", "pubPlace", "identifier"} -> 3
      [] h.kind \in {"source", "analytic", "monogr", "imprint"} -> 4
      [] h.kind = "application" -> 5
      [] h.kind = "change" -> 6

\* the part of the traversal a position of the mapper belongs to
StageAt(at, back) ==
    CASE at \in {"idle", "fileDesc"} -> 0
      [] at \in {"titleStmt", "titles", "respStmts"} -> 1
      [] at \in {"persNames", "corpNames"} -> IF back = "respStmts" THEN 1 ELSE 4
      [] at \in {"editionStmt", "editions"} -> 2
      [] at \in {"pubStmt", "publisher", "pubDate", "pubPlace", "identifier"} -> 3
      [] at \in {"sourceDesc", "sources", "analytic", "monogr", "imprint"} -> 4
      [] at \in {"encodingDesc", "applications"} -> 5
      [] at \in {"revisionDesc", "changes"} -> 6
      [] at = "done" -> 7

InTitleStmt(h) == Stage(h) = 1

\* C22: within one conversion the mapper never goes back to an earlier part
\* of the traversal, the handled elements stand in that order, a change is
\* linked exactly when its '#id' is a key registered by any element of the
\* file description, and an edition exactly when its '#id' is a key
\* registered by the title statement's responsibility statements
C22_TraversalOrder ==
    /\ [][pc # "done" => StageAt(pc', ret') >= StageAt(pc, ret)]_vars
    /\ [](\A i, j \in DOMAIN header : i < j => Stage(header[i]) <= Stage(header[j]))
    /\ [](\A i \in DOMAIN header :
            LET h == header[i] IN
            /\ h.kind = "change" =>
                  ((WithPred(h.out, "prov:wasAssociatedWith") # {})
                      <=> (IsFragment(h.el.resp)
                           /\ Tail(h.el.resp[1]) \in DOMAIN AgentsOf(header)))
            /\ (h.kind = "edition" /\ extract_text_content(h.el.content) # <<>>) =>
                  ((WithPred(h.out, "dcterms:creator") # {})
                      <=> (IsFragment(h.el.resp)
                           /\ Tail(h.el.resp[1])
                                \in DOMAIN AgentsOf(SelectSeq(header, InTitleStmt)))))

\* C22 witness: a change is linked to an agent that only a source's
\* responsibility statement registered
C22_ChangeLinkedToSourceAgent ==
    \E i, j \in DOMAIN header :
        /\ i < j
        /\ header[i].kind = "persName"
        /\ Stage(header[i]) = 4
        /\ header[j].kind = "change"
        /\ IsFragment(header[j].el.resp)
        /\ Tail(header[j].el.resp[1]) = PersAgentId(header[i].el)
        /\ SelectSeq(header, InTitleStmt) = <<>>
        /\ \E k \in WithPred(header[j].out, "prov:wasAssociatedWith") :
              header[j].out[k].obj = UriObj(Uri("mei:agent/", PersAgentId(header[i].el)))

(***************************************************************************)
(* C23: referential integrity of the agent links: an edition->agent        *)
(* creator link or an activity->agent association link in the output is    *)
(* preceded by the type statement (person or organization) of that agent,  *)
(* and every key of the agents table belongs to an agent whose defining    *)
(* statements were emitted.                                                *)
(***************************************************************************)
\* the statements among the first n lines that declare uri a person or an
\* organization
AgentTyped(uri, n) ==
    \E j \in 1..n :
        /\ ttl_lines[j].subj = uri
        /\ ttl_lines[j].pred = "a"
        /\ ttl_lines[j].obj \in {ClassObj("foaf:Person"), ClassObj("foaf:Organization")}

\* subject is the URI of a revision activity
OfRevision(subject) ==
    /\ Len(subject) > Len(S_revision)
    /\ subject[1] = "mei:activity/"
    /\ SubSeq(subject, 2, Len(S_revision) + 1) = S_revision

\* C23: every resolved agent link stands after the type statement of its
\* agent, and every agent of the agents table has its type statement
C23_AgentLinksDefined ==
    /\ \A k \in DOMAIN ttl_lines :
          (\/ (ttl_lines[k].pred = "prov:wasAssociatedWith" /\ OfRevision(ttl_lines[k].subj))
           \/ (ttl_lines[k].pred = "dcterms:creator" /\ "edition" \in DOMAIN entities
                                                    /\ ttl_lines[k].subj = entities["edition"]))
              => (ttl_lines[k].obj.kind = "uri" /\ AgentTyped(ttl_lines[k].obj.val, k - 1))
    /\ \A id \in DOMAIN agents : AgentTyped(agents[id], Len(ttl_lines))

(***************************************************************************)
(* C24: in one run of the provenance batch driver the single-document      *)
(* conversion is invoked exactly once for every discovered file, whether   *)
(* or not some files fail, and the failures listed in the summary are the  *)
(* results of that single pass.                                            *)
(***************************************************************************)
\* the calls of the conversion made for the file at this position
CallsOf(i) == {k \in DOMAIN calls : calls[k].file_path = i}

\* C24: the provenance driver never converts a file twice, has converted
\* every file once when it returns, and lists the files whose one
\* conversion failed
C24_OneConversionPerFile ==
    fn = ProvMain =>
        /\ \A i \in DOMAIN arg : Cardinality(CallsOf(i)) <= 1
        /\ rpc = "done" =>
              /\ \A i \in DOMAIN arg : Cardinality(CallsOf(i)) = 1
              /\ listed = FailedOf(SubSeq(calls, 1, Len(arg)))

(***************************************************************************)
(* C25: in one run of the validator the schema cache is keyed by URL and   *)
(* only grows, a schema is fetched at most once after it was loaded, every *)
(* file is validated against the cached schema of its own URL, a file      *)
(* without schema URL or with an unloadable schema adds one error and is   *)
(* skipped without stopping the loop, and main returns True if and only if *)
(* the error list is empty after all files.                                *)
(***************************************************************************)
\* the cache holds under every key the schema of that URL and keeps it
CacheGrows ==
    /\ \A u \in DOMAIN schemas : schemas[u] = RelaxNG(u)
    /\ \A k \in DOMAIN fetched :
          fetched[k].response = "rng" => fetched[k].url \in DOMAIN schemas

\* no URL is fetched again after a fetch that loaded its schema
FetchedOnce ==
    \A k, l \in DOMAIN fetched :
        (k < l /\ fetched[k].url = fetched[l].url) => fetched[k].response # "rng"

\* every validation took the cached schema of the file's own URL
OwnSchema ==
    \A k \in DOMAIN validated :
        LET file == arg[validated[k].file]
        IN  /\ file.xml = "tree"
            /\ file.href # <<>>
            /\ file.href[1] \in DOMAIN schemas
            /\ validated[k].schema = schemas[file.href[1]]

\* the files that added an error and were skipped, and the failed fetches
Skipped(n) == {i \in 1..n : arg[i].xml = "malformed" \/ arg[i].href = <<>>}
Unloaded == {k \in DOMAIN fetched : fetched[k].response # "rng"}
Invalid == {k \in DOMAIN validated :
                validated[k].schema.from \notin arg[validated[k].file].validFor}

\* every file without URL and every unloadable schema has added one error,
\* its file was not validated, and the loop went on to the last file
SkippedNotStopped ==
    /\ rpc \in {"loop", "report", "done"} =>
          /\ Len(errors) = Cardinality(Skipped(it)) + Cardinality(Unloaded)
                              + Cardinality(Invalid)
          /\ Len(validated) + Cardinality(Skipped(it)) + Cardinality(Unloaded) = it
    /\ rpc \in {"report", "done"} => it = Len(arg)

\* main returns True exactly when no error was added
TrueIffNoErrors ==
    rpc = "done" =>
        /\ Len(res) = 1
        /\ res[1].kind = "return"
        /\ res[1].val = (errors = <<>>)

\* C25: the cache only grows, no schema is fetched again once loaded, every
\* file is validated against the schema of its own URL, a file without
\* URL or with an unloadable schema adds one error and is skipped without
\* stopping the loop, and main returns True iff there is no error
C25_SchemaCache ==
    /\ CacheGrows
    /\ FetchedOnce
    /\ OwnSchema
    /\ SkippedNotStopped
    /\ TrueIffNoErrors

=============================================================================
